---- MODULE Spec2Model ----
(***************************************************************************)
(* Restaurant recommender and segmentation: the ETL lambda, the table      *)
(* cleaners and the join, the RFM and FOOD segmentations, the backend      *)
(* pipeline script and the recommender's model upload, as state machines.  *)
(***************************************************************************)
EXTENDS Integers, Sequences, FiniteSets, TLC

VARIABLES
    \* ---- Recommender.upload_models_to_s3 (backend/src/recommender.py)
    aws_config,      \* self.aws_config: the keys present and the upload flag
    rec_pc,          \* position inside upload_models_to_s3
    model_idx,       \* index of model_type in the menu of the for loop
    upload_status,   \* the dict upload_status
    s3_clients,      \* number of boto3.client calls made
    upload_calls,    \* every s3_client.upload_file call: model, key, outcome
    trained,         \* the model types whose fit returned
    tmp_files,       \* temporary files that exist on disk
    tmp_name,        \* the local tmp_name ("" while unassigned)
    stdout,          \* what sys.stdout refers to
    rec_ret,         \* the value returned
    rec_failed_at,   \* the step whose exception left the method ("" if none)
    \* ---- one call of a table cleaner (ETL/ETL_code.py)
    cl_pc,           \* "call" before the call, "done" after it, "idle"
    cl_func,         \* the cleaner called
    cl_in,           \* the caller's table as it was when passed in
    cl_arg,          \* the caller's table object
    cl_ret,          \* the table returned
    cl_exc,          \* the exception raised ("" if none)
    \* ---- one call of merge_datasets (ETL/ETL_code.py)
    mg_pc,           \* "call", "done", "idle"
    mg_customers,    \* the four cleaned tables passed in
    mg_locations,
    mg_orders,
    mg_vendors,
    mg_ret,          \* the table returned
    mg_exc,          \* the exception raised ("" if none)
    \* ---- lambda_handler (ETL/ETL_code.py)
    lam_pc,          \* the next step of the handler
    customers,       \* the locals of the handler
    locations,
    orders,
    vendors,
    cleaned_customers,
    cleaned_locations,
    cleaned_orders,
    cleaned_vendors,
    final_data,
    lam_trace,       \* the steps that completed, in order
    lam_exc,         \* the exception raised inside the try ("" if none)
    lam_failed_step, \* the step that raised it
    s3_puts,         \* the objects written by put_object
    lam_result,      \* the dict returned (statusCode 0 while running)
    \* ---- the pipeline script (backend/pipeline.py)
    pipe_pc,         \* the next step of the script
    config,          \* the parsed configuration file
    pipe_df,         \* df, the table acquired from the database
    rfm_result,      \* rfm_df, what RFM.run returned
    food_result,     \* food_df, what FOOD.run returned
    joined_df,       \* the segmentation table
    published,       \* the tables upload_clustering_to_s3 has written
    pipe_exc,        \* the exception that ended the script ("" if none)
    pipe_failed,     \* the step in which an exception was raised ("" if none)
    pipe_log,        \* the records the script itself logged in step 4
    \* ---- one call of a method of Recommender (backend/src/recommender.py)
    fn_pc,           \* "call" before the call, "done" after it, "idle"
    fn_name,         \* the method called
    fn_args,         \* the object's attributes and the arguments of the call
    fn_ret,          \* the value returned
    fn_exc,          \* the exception raised ("" if none)
    \* ---- one RFM object (backend/src/rfm.py)
    rfm_pc,          \* the next method RFM.run calls
    rfm_input,       \* the table given to the constructor
    rfm_cfg,         \* self.rfm_config
    rfm_self,        \* self.df, self.rfm_df and self.rfm_labeled
    rfm_labels,      \* the labels K-Means gave the rows of self.rfm_df
    rfm_exc,         \* the exception raised ("" if none)
    \* ---- the table objects of the pipeline and of its stages
    hd_pc,           \* the next constructor or method the script calls
    hd_heap,         \* the table objects that exist, by identity
    hd_df,           \* the object the script's df refers to
    hd_acquired,     \* the contents of that object when it was acquired
    hd_self,         \* the object self.df or self.data of the stage refers to
    hd_exc           \* the exception a stage raised ("" if none)

recVars == <<aws_config, rec_pc, model_idx, upload_status, s3_clients,
             upload_calls, trained, tmp_files, tmp_name, stdout, rec_ret,
             rec_failed_at>>

cleanVars == <<cl_pc, cl_func, cl_in, cl_arg, cl_ret, cl_exc>>

mergeVars == <<mg_pc, mg_customers, mg_locations, mg_orders, mg_vendors,
               mg_ret, mg_exc>>

lamVars == <<lam_pc, customers, locations, orders, vendors, cleaned_customers,
             cleaned_locations, cleaned_orders, cleaned_vendors, final_data,
             lam_trace, lam_exc, lam_failed_step, s3_puts, lam_result>>

pipeVars == <<pipe_pc, config, pipe_df, rfm_result, food_result, joined_df,
              published, pipe_exc, pipe_failed, pipe_log>>

fnVars == <<fn_pc, fn_name, fn_args, fn_ret, fn_exc>>

rfmVars == <<rfm_pc, rfm_input, rfm_cfg, rfm_self, rfm_labels, rfm_exc>>

handVars == <<hd_pc, hd_heap, hd_df, hd_acquired, hd_self, hd_exc>>

vars == <<recVars, cleanVars, mergeVars, lamVars, pipeVars, fnVars, rfmVars,
          handVars>>

\* what the steps of one program part leave alone: the other parts
notRecVars == <<cleanVars, mergeVars, lamVars, pipeVars, fnVars, rfmVars, handVars>>

notCleanVars == <<recVars, mergeVars, lamVars, pipeVars, fnVars, rfmVars, handVars>>

notMergeVars == <<recVars, cleanVars, lamVars, pipeVars, fnVars, rfmVars, handVars>>

notLamVars == <<recVars, cleanVars, mergeVars, pipeVars, fnVars, rfmVars, handVars>>

notPipeVars == <<cleanVars, mergeVars, lamVars, fnVars, rfmVars, handVars>>

notFnVars == <<recVars, cleanVars, mergeVars, lamVars, pipeVars, rfmVars, handVars>>

notHandVars == <<recVars, cleanVars, mergeVars, lamVars, pipeVars, fnVars,
                 rfmVars>>

notRfmVars == <<recVars, cleanVars, mergeVars, lamVars, pipeVars, fnVars, handVars>>

(***************************************************************************)
(* Dictionaries are functions from string keys; EmptyDict is {}.           *)
(***************************************************************************)
EmptyDict == [k \in {} |-> FALSE]

DictSet(d, k, v) == [x \in (DOMAIN d) \cup {k} |-> IF x = k THEN v ELSE d[x]]

(***************************************************************************)
(* Recommender.upload_models_to_s3                                         *)
(***************************************************************************)
AwsKeys == {"upload", "region", "bucket_name", "prefix"}

\* The storage configurations: any subset of the keys, the flag either way.
AwsConfigs == [keys : SUBSET AwsKeys, upload : BOOLEAN]

\* self.aws_config.get("upload", False)
UploadEnabledDefaultTrue(cfg) == IF "upload" \in cfg.keys THEN cfg.upload ELSE TRUE

UploadEnabled(cfg) == IF "upload" \in cfg.keys THEN cfg.upload ELSE FALSE

\* the menu of the for loop as it would be with every type _build_model knows
ModelMenuWithUserKnn == <<"svd", "nmf", "svdpp", "user_knn", "item_knn">>

\* the menu of the for loop
ModelMenu == <<"svd", "nmf", "svdpp", "item_knn">>

KnownModelTypes == {"svd", "nmf", "svdpp", "user_knn", "item_knn"}

\* _build_model as it would be with a default model for an unknown type
BuildModelDefault(model_type) ==
    IF model_type = "svd" THEN "SVD"
    ELSE IF model_type = "nmf" THEN "NMF"
    ELSE IF model_type = "svdpp" THEN "SVDpp"
    ELSE IF model_type \in {"user_knn", "item_knn"} THEN "KNNBasic"
    ELSE "SVD"

\* _build_model: the class built for a model type, or the ValueError
BuildModel(model_type) ==
    IF model_type = "svd" THEN "SVD"
    ELSE IF model_type = "nmf" THEN "NMF"
    ELSE IF model_type = "svdpp" THEN "SVDpp"
    ELSE IF model_type \in {"user_knn", "item_knn"} THEN "KNNBasic"
    ELSE "ValueError"

\* s3_key = f"{prefix}{model_type}_model.pkl": the prefix is a fixed string
\* of the configuration, the model type is what varies
S3Key(model_type) == <<"prefix", model_type, "_model.pkl">>

SkippedResult == DictSet(EmptyDict, "upload_enabled", FALSE)

RecInit ==
    /\ aws_config \in AwsConfigs
    /\ rec_pc = "check_flag"
    /\ model_idx = 1
    /\ upload_status = EmptyDict
    /\ s3_clients = 0
    /\ upload_calls = <<>>
    /\ trained = <<>>
    /\ tmp_files = {}
    /\ tmp_name = ""
    /\ stdout = "original"
    /\ rec_ret = EmptyDict
    /\ rec_failed_at = ""

\* the outer except: log the error and re-raise
RecRaise(step) ==
    /\ rec_pc' = "raised"
    /\ rec_failed_at' = step

\* lines 119-121 as they would be if the flag were looked at after the
\* training loop: every model of the menu is trained, then the upload is
\* skipped
RecCheckFlagAfterTraining ==
    /\ UNCHANGED notRecVars
    /\ rec_pc = "check_flag"
    /\ IF ~UploadEnabled(aws_config)
       THEN /\ trained' = ModelMenu
            /\ rec_pc' = "returned"
            /\ rec_ret' = SkippedResult
       ELSE /\ rec_pc' = "create_client"
            /\ UNCHANGED <<rec_ret, trained>>
    /\ UNCHANGED <<aws_config, model_idx, upload_status, s3_clients,
                   upload_calls, tmp_files, tmp_name, stdout,
                   rec_failed_at>>

\* lines 119-121
RecCheckFlag ==
    /\ UNCHANGED notRecVars
    /\ rec_pc = "check_flag"
    /\ IF ~UploadEnabled(aws_config)
       THEN /\ rec_pc' = "returned"
            /\ rec_ret' = SkippedResult
       ELSE /\ rec_pc' = "create_client"
            /\ UNCHANGED rec_ret
    /\ UNCHANGED <<aws_config, model_idx, upload_status, s3_clients,
                   upload_calls, trained, tmp_files, tmp_name, stdout,
                   rec_failed_at>>

\* lines 124-136: the client, then bucket_name and prefix
RecCreateClient ==
    /\ UNCHANGED notRecVars
    /\ rec_pc = "create_client"
    /\ IF "region" \notin aws_config.keys
       THEN RecRaise("create_client") /\ UNCHANGED s3_clients
       ELSE \E ok \in BOOLEAN :
              IF ~ok
              THEN RecRaise("create_client") /\ UNCHANGED s3_clients
              ELSE /\ s3_clients' = s3_clients + 1
                   /\ IF {"bucket_name", "prefix"} \subseteq aws_config.keys
                      THEN rec_pc' = "build_trainset" /\ UNCHANGED rec_failed_at
                      ELSE RecRaise("create_client")
    /\ UNCHANGED <<aws_config, model_idx, upload_status, upload_calls,
                   trained, tmp_files, tmp_name, stdout, rec_ret>>

\* lines 138-152: Reader, Dataset, build_full_trainset, upload_status = {}
RecBuildTrainset ==
    /\ UNCHANGED notRecVars
    /\ rec_pc = "build_trainset"
    /\ \E ok \in BOOLEAN :
         IF ok
         THEN /\ rec_pc' = "loop"
              /\ upload_status' = EmptyDict
              /\ UNCHANGED rec_failed_at
         ELSE RecRaise("build_trainset") /\ UNCHANGED upload_status
    /\ UNCHANGED <<aws_config, model_idx, s3_clients, upload_calls, trained,
                   tmp_files, tmp_name, stdout, rec_ret>>

\* line 153: the next model type of the menu, or line 191: return
RecLoop ==
    /\ UNCHANGED notRecVars
    /\ rec_pc = "loop"
    /\ IF model_idx <= Len(ModelMenu)
       THEN rec_pc' = "build" /\ UNCHANGED rec_ret
       ELSE rec_pc' = "returned" /\ rec_ret' = upload_status
    /\ UNCHANGED <<aws_config, model_idx, upload_status, s3_clients,
                   upload_calls, trained, tmp_files, tmp_name, stdout,
                   rec_failed_at>>

\* line 155: model = self._build_model(model_type); lines 158-162
RecBuild ==
    /\ UNCHANGED notRecVars
    /\ rec_pc = "build"
    /\ \E ok \in BOOLEAN :
         IF ok /\ BuildModel(ModelMenu[model_idx]) # "ValueError"
         THEN /\ UNCHANGED rec_failed_at
              /\ IF ModelMenu[model_idx] \in {"user_knn", "item_knn"}
                 THEN rec_pc' = "fit_redirected" /\ stdout' = "buffer"
                 ELSE rec_pc' = "fit" /\ UNCHANGED stdout
         ELSE RecRaise("build") /\ UNCHANGED stdout
    /\ UNCHANGED <<aws_config, model_idx, upload_status, s3_clients,
                   upload_calls, trained, tmp_files, tmp_name, rec_ret>>

\* line 172: model.fit(trainset)
RecFit ==
    /\ UNCHANGED notRecVars
    /\ rec_pc = "fit"
    /\ \E ok \in BOOLEAN :
         IF ok
         THEN /\ trained' = Append(trained, ModelMenu[model_idx])
              /\ rec_pc' = "tmpfile"
              /\ UNCHANGED rec_failed_at
         ELSE RecRaise("fit") /\ UNCHANGED trained
    /\ UNCHANGED <<aws_config, model_idx, upload_status, s3_clients,
                   upload_calls, tmp_files, tmp_name, stdout, rec_ret>>

\* lines 164-169: fit under the redirection; the finally restores stdout
RecFitRedirected ==
    /\ UNCHANGED notRecVars
    /\ rec_pc = "fit_redirected"
    /\ \E ok \in BOOLEAN :
         IF ok
         THEN /\ trained' = Append(trained, ModelMenu[model_idx])
              /\ rec_pc' = "restore_ok"
         ELSE /\ rec_pc' = "restore_exc"
              /\ UNCHANGED trained
    /\ UNCHANGED <<aws_config, model_idx, upload_status, s3_clients,
                   upload_calls, tmp_files, tmp_name, stdout, rec_ret,
                   rec_failed_at>>

\* lines 164-169 as they would be without the finally: stdout is restored
\* only after a fit that returned
RecRestoreOnSuccessOnly ==
    /\ UNCHANGED notRecVars
    /\ rec_pc \in {"restore_ok", "restore_exc"}
    /\ IF rec_pc = "restore_ok"
       THEN stdout' = "original" /\ rec_pc' = "tmpfile" /\ UNCHANGED rec_failed_at
       ELSE UNCHANGED stdout /\ RecRaise("fit")
    /\ UNCHANGED <<aws_config, model_idx, upload_status, s3_clients,
                   upload_calls, trained, tmp_files, tmp_name, rec_ret>>

\* line 169: sys.stdout = original_stdout, then on or out
RecRestoreStdout ==
    /\ UNCHANGED notRecVars
    /\ rec_pc \in {"restore_ok", "restore_exc"}
    /\ stdout' = "original"
    /\ IF rec_pc = "restore_ok"
       THEN rec_pc' = "tmpfile" /\ UNCHANGED rec_failed_at
       ELSE RecRaise("fit")
    /\ UNCHANGED <<aws_config, model_idx, upload_status, s3_clients,
                   upload_calls, trained, tmp_files, tmp_name, rec_ret>>

\* lines 174-176: the temporary file, pickle.dump, tmp_name = tmp.name
RecDump ==
    /\ UNCHANGED notRecVars
    /\ rec_pc = "tmpfile"
    /\ \E created \in BOOLEAN, dumped \in BOOLEAN :
         IF ~created
         THEN RecRaise("tmpfile") /\ UNCHANGED <<tmp_files, tmp_name>>
         ELSE /\ tmp_files' = tmp_files \cup {ModelMenu[model_idx]}
              /\ IF dumped
                 THEN /\ tmp_name' = ModelMenu[model_idx]
                      /\ rec_pc' = "upload"
                      /\ UNCHANGED rec_failed_at
                 ELSE RecRaise("dump") /\ UNCHANGED tmp_name
    /\ UNCHANGED <<aws_config, model_idx, upload_status, s3_clients,
                   upload_calls, trained, stdout, rec_ret>>

RecUploadPropagates ==
    /\ UNCHANGED notRecVars
    /\ rec_pc = "upload"
    /\ \E ok \in BOOLEAN :
         /\ upload_calls' = Append(upload_calls,
                [model |-> ModelMenu[model_idx],
                 key |-> S3Key(ModelMenu[model_idx]), ok |-> ok])
         /\ IF ok
            THEN /\ upload_status' = DictSet(upload_status, ModelMenu[model_idx], TRUE)
                 /\ rec_pc' = "cleanup"
                 /\ UNCHANGED rec_failed_at
            ELSE /\ UNCHANGED upload_status
                 /\ RecRaise("upload")
    /\ UNCHANGED <<aws_config, model_idx, s3_clients, trained, tmp_files,
                   tmp_name, stdout, rec_ret>>

\* lines 178-186: upload_file, and the except that records False
RecUpload ==
    /\ UNCHANGED notRecVars
    /\ rec_pc = "upload"
    /\ \E ok \in BOOLEAN :
         /\ upload_calls' = Append(upload_calls,
                [model |-> ModelMenu[model_idx],
                 key |-> S3Key(ModelMenu[model_idx]), ok |-> ok])
         /\ upload_status' = DictSet(upload_status, ModelMenu[model_idx], ok)
    /\ rec_pc' = "cleanup"
    /\ UNCHANGED <<aws_config, model_idx, s3_clients, trained, tmp_files,
                   tmp_name, stdout, rec_ret, rec_failed_at>>

\* lines 187-189: the finally removes tmp_name, then the next iteration
RecCleanup ==
    /\ UNCHANGED notRecVars
    /\ rec_pc = "cleanup"
    /\ tmp_files' = tmp_files \ {tmp_name}
    /\ model_idx' = model_idx + 1
    /\ rec_pc' = "loop"
    /\ UNCHANGED <<aws_config, upload_status, s3_clients, upload_calls,
                   trained, tmp_name, stdout, rec_ret, rec_failed_at>>

RecNext ==
    \/ RecCheckFlag
    \/ RecCreateClient
    \/ RecBuildTrainset
    \/ RecLoop
    \/ RecBuild
    \/ RecFit
    \/ RecFitRedirected
    \/ RecRestoreStdout
    \/ RecDump
    \/ RecUpload
    \/ RecCleanup


(***************************************************************************)
(* Tables (ETL/ETL_code.py).  A table is a set of column names and a       *)
(* sequence of rows, each row a function from the column names to cells.   *)
(* A cell is a pair of a kind and a payload: missing, a string (a tuple of *)
(* characters), a number, or a parsed timestamp.                           *)
(***************************************************************************)
Null == <<"nan", 0>>

Num(n) == <<"num", n>>

Str(s) == <<"str", s>>

Ts(n) == <<"ts", n>>

IsNull(c) == c[1] = "nan"

Table(cols, rows) == [cols |-> cols, rows |-> rows]

NRows(t) == Len(t.rows)

\* df[c] = vals
WithColumn(t, c, vals) ==
    Table(t.cols \cup {c},
          [i \in 1..NRows(t) |-> DictSet(t.rows[i], c, vals[i])])

\* df[c] = F(df[c]) cell by cell
MapColumn(t, c, F(_)) ==
    WithColumn(t, c, [i \in 1..NRows(t) |-> F(t.rows[i][c])])

\* df[cols]
Project(t, cols) ==
    Table(cols, [i \in 1..NRows(t) |-> [c \in cols |-> t.rows[i][c]]])

\* df.drop(cols, axis=1, errors='ignore')
DropColumns(t, cols) == Project(t, t.cols \ cols)

\* df.rename(columns={old: new}); a column that is absent is left alone
Rename(t, old, new) ==
    IF old \notin t.cols THEN t
    ELSE Table((t.cols \ {old}) \cup {new},
               [i \in 1..NRows(t) |->
                   [c \in (t.cols \ {old}) \cup {new} |->
                       IF c = new THEN t.rows[i][old] ELSE t.rows[i][c]]])

RECURSIVE Concat(_)
\* the concatenation of a sequence of sequences
Concat(ss) == IF ss = <<>> THEN <<>> ELSE Head(ss) \o Concat(Tail(ss))

Digits == <<"0", "1", "2", "3", "4", "5", "6", "7", "8", "9">>

IsDigit(ch) == \E d \in 1..10 : Digits[d] = ch

DigitValue(ch) == (CHOOSE d \in 1..10 : Digits[d] = ch) - 1

RECURSIVE ParseInt(_)
\* int(s) for a non-empty string of digits
ParseInt(s) ==
    IF Len(s) = 1 THEN DigitValue(s[1])
    ELSE 10 * ParseInt(SubSeq(s, 1, Len(s) - 1)) + DigitValue(s[Len(s)])

IsNumeric(s) == Len(s) > 0 /\ \A i \in 1..Len(s) : IsDigit(s[i])

\* pd.to_numeric(x, errors='coerce') on one cell
ToNumeric(c) ==
    IF c[1] = "num" THEN c
    ELSE IF c[1] = "str" /\ IsNumeric(c[2]) THEN Num(ParseInt(c[2]))
    ELSE Null

\* whether pd.to_datetime can parse the cell: timestamps are written as
\* strings of digits, any other string is unparseable
Parseable(c) == c[1] # "str" \/ IsNumeric(c[2])

\* pd.to_datetime on one parseable cell; errors='coerce' maps the rest to NaT
ToDatetime(c) ==
    IF c[1] = "ts" THEN c
    ELSE IF c[1] = "str" /\ IsNumeric(c[2]) THEN Ts(ParseInt(c[2]))
    ELSE Null

LowerCase == <<"a", "e", "f", "l", "m">>

UpperCase == <<"A", "E", "F", "L", "M">>

Upper(ch) ==
    IF \E k \in 1..Len(LowerCase) : LowerCase[k] = ch
    THEN UpperCase[CHOOSE k \in 1..Len(LowerCase) : LowerCase[k] = ch]
    ELSE ch

Lower(ch) ==
    IF \E k \in 1..Len(UpperCase) : UpperCase[k] = ch
    THEN LowerCase[CHOOSE k \in 1..Len(UpperCase) : UpperCase[k] = ch]
    ELSE ch

IsLetter(ch) == Upper(ch) # ch \/ Lower(ch) # ch

RECURSIVE Strip(_)
\* str.strip()
Strip(s) ==
    IF s = <<>> THEN s
    ELSE IF Head(s) = " " THEN Strip(Tail(s))
    ELSE IF s[Len(s)] = " " THEN Strip(SubSeq(s, 1, Len(s) - 1))
    ELSE s

\* str.title()
Title(s) ==
    [i \in 1..Len(s) |->
        IF i = 1 \/ ~IsLetter(s[i - 1]) THEN Upper(s[i]) ELSE Lower(s[i])]

Male == Str(<<"M", "a", "l", "e">>)

Female == Str(<<"F", "e", "m", "a", "l", "e">>)

Unknown == Str(<<"U", "n", "k", "n", "o", "w", "n">>)

Other == Str(<<"O", "t", "h", "e", "r">>)

No == Str(<<"N", "o">>)

\* lines 91-92 on one cell, as they would be without str.strip()
CleanGenderUntrimmed(c) ==
    LET g == IF c[1] = "str" THEN Str(Title(c[2])) ELSE Unknown
    IN IF g \in {Male, Female} THEN g ELSE Unknown

\* lines 91-92 on one cell
CleanGender(c) ==
    LET g == IF c[1] = "str" THEN Str(Title(Strip(c[2]))) ELSE Unknown
    IN IF g \in {Male, Female} THEN g ELSE Unknown

\* lines 93-95 on one cell
CleanDob(c) ==
    LET d == ToNumeric(c)
    IN IF IsNull(d) THEN Null
       ELSE IF d[2] > 2020 \/ d[2] < 1945 THEN Null
       ELSE d

\* x.fillna(v) on one cell
FillNa(c, v) == IF IsNull(c) THEN v ELSE c

\* the outcome of a call: the caller's table object after the call, the
\* table returned, and the exception that left the call ("" if none)
Outcome(arg, ret, exc) == [arg |-> arg, ret |-> ret, exc |-> exc]

NoTable == Table({}, <<>>)


RECURSIVE SortedSeq(_)
\* the elements of a finite set of integers in ascending order
SortedSeq(S) ==
    IF S = {} THEN <<>>
    ELSE LET m == CHOOSE x \in S : \A y \in S : x <= y
         IN <<m>> \o SortedSeq(S \ {m})

\* idxmax as it would be if the last of several rows with the maximum were
\* taken
IdxMaxLast(t, k) ==
    LET valid == {i \in 1..NRows(t) :
                     /\ t.rows[i]["akeed_customer_id"] = Num(k)
                     /\ ~IsNull(t.rows[i]["updated_at"])}
    IN IF valid = {} THEN 0
       ELSE CHOOSE i \in valid :
              \A j \in valid :
                 \/ t.rows[j]["updated_at"][2] < t.rows[i]["updated_at"][2]
                 \/ (t.rows[j]["updated_at"][2] = t.rows[i]["updated_at"][2] /\ j <= i)

\* the first row of customer k with the maximum 'updated_at' (idxmax), 0 when
\* every 'updated_at' of the customer is missing
IdxMax(t, k) ==
    LET valid == {i \in 1..NRows(t) :
                     /\ t.rows[i]["akeed_customer_id"] = Num(k)
                     /\ ~IsNull(t.rows[i]["updated_at"])}
    IN IF valid = {} THEN 0
       ELSE CHOOSE i \in valid :
              \A j \in valid :
                 \/ t.rows[j]["updated_at"][2] < t.rows[i]["updated_at"][2]
                 \/ (t.rows[j]["updated_at"][2] = t.rows[i]["updated_at"][2] /\ i <= j)

CustomerBookkeeping == {"created_at", "updated_at", "status", "verified", "language"}

\* clean_customers, lines 84-100
clean_customers(df) ==
    IF "created_at" \notin df.cols THEN Outcome(df, NoTable, "KeyError")
    ELSE IF \E i \in 1..NRows(df) : ~Parseable(df.rows[i]["created_at"])
    THEN Outcome(df, NoTable, "ValueError")
    ELSE
    LET df1 == MapColumn(df, "created_at", ToDatetime) IN
    IF "updated_at" \notin df1.cols THEN Outcome(df1, NoTable, "KeyError")
    ELSE IF \E i \in 1..NRows(df1) : ~Parseable(df1.rows[i]["updated_at"])
    THEN Outcome(df1, NoTable, "ValueError")
    ELSE
    LET df2 == MapColumn(df1, "updated_at", ToDatetime) IN
    IF "akeed_customer_id" \notin df2.cols THEN Outcome(df2, NoTable, "KeyError")
    ELSE
    LET ids == SortedSeq({df2.rows[i]["akeed_customer_id"][2] :
                            i \in {j \in 1..NRows(df2) :
                                     ~IsNull(df2.rows[j]["akeed_customer_id"])}})
    IN
    IF \E n \in 1..Len(ids) : IdxMax(df2, ids[n]) = 0
    THEN Outcome(df2, NoTable, "KeyError")
    ELSE
    LET df3 == Table(df2.cols, [n \in 1..Len(ids) |-> df2.rows[IdxMax(df2, ids[n])]])
        df4 == DropColumns(df3, CustomerBookkeeping)
    IN
    IF "gender" \notin df4.cols THEN Outcome(df2, NoTable, "KeyError")
    ELSE IF NRows(df2) > 0 /\ \A i \in 1..NRows(df2) : df2.rows[i]["gender"][1] # "str"
    THEN Outcome(df2, NoTable, "AttributeError")
    ELSE
    LET df5 == MapColumn(df4, "gender", CleanGender) IN
    IF "dob" \notin df5.cols THEN Outcome(df2, NoTable, "KeyError")
    ELSE
    LET df6 == MapColumn(df5, "dob", CleanDob)
    IN Outcome(df2, Rename(df6, "akeed_customer_id", "customer_id"), "")

\* clean_locations, lines 102-111
clean_locations(df) ==
    IF ~({"latitude", "longitude"} \subseteq df.cols)
    THEN Outcome(df, NoTable, "KeyError")
    ELSE
    LET Located(r) == ~IsNull(r["latitude"]) /\ ~IsNull(r["longitude"])
        df1 == Table(df.cols, SelectSeq(df.rows, Located))
    IN
    IF "location_type" \notin df1.cols THEN Outcome(df, NoTable, "KeyError")
    ELSE
    LET FillOther(c) == FillNa(c, Other)
        df2 == MapColumn(df1, "location_type", FillOther)
    IN Outcome(df,
               Rename(Rename(df2, "location_number", "LOCATION_NUMBER"),
                      "location_type", "LOCATION_TYPE"),
               "")

\* x.median() of the valid cells of a group: Null when there is none; a
\* median that falls between two integers a and b is the cell <<"half", a+b>>
Median(cells) ==
    LET valid == {i \in 1..Len(cells) : ~IsNull(cells[i])}
        n == Cardinality(valid)
        \* the number of valid cells ranked before cell i
        Rank(i) == Cardinality({j \in valid :
                      \/ cells[j][2] < cells[i][2]
                      \/ (cells[j][2] = cells[i][2] /\ j < i)})
        At(r) == cells[CHOOSE i \in valid : Rank(i) = r][2]
    IN IF n = 0 THEN Null
       ELSE IF n % 2 = 1 THEN Num(At(n \div 2))
       ELSE IF (At(n \div 2 - 1) + At(n \div 2)) % 2 = 0
            THEN Num((At(n \div 2 - 1) + At(n \div 2)) \div 2)
            ELSE <<"half", At(n \div 2 - 1) + At(n \div 2)>>

\* line 120: groupby('customer_id')['item_count'].transform(fillna(median));
\* a row whose customer_id is missing belongs to no group and gets NaN
ImputeItemCount(t) ==
    LET Group(k) == SelectSeq(t.rows, LAMBDA r : r["customer_id"] = k)
        GroupMedian(k) ==
            Median([i \in 1..Len(Group(k)) |-> Group(k)[i]["item_count"]])
    IN WithColumn(t, "item_count",
          [i \in 1..NRows(t) |->
              IF IsNull(t.rows[i]["customer_id"]) THEN Null
              ELSE FillNa(t.rows[i]["item_count"],
                          GroupMedian(t.rows[i]["customer_id"]))])

\* line 117 on one cell, as it would be if the code itself were kept
PromoFlagKeepsCode(c) == IF IsNull(c) THEN Num(0) ELSE c

\* line 117 on one cell: notna().astype(int)
PromoFlag(c) == Num(IF IsNull(c) THEN 0 ELSE 1)

\* clean_orders, lines 113-128
clean_orders(df) ==
    IF "created_at" \notin df.cols THEN Outcome(df, NoTable, "KeyError")
    ELSE
    LET d1 == MapColumn(df, "created_at", ToDatetime) IN
    IF "promo_code" \notin d1.cols THEN Outcome(d1, NoTable, "KeyError")
    ELSE
    LET d2 == MapColumn(d1, "promo_code", PromoFlag) IN
    IF "promo_code_discount_percentage" \notin d2.cols
    THEN Outcome(d2, NoTable, "KeyError")
    ELSE
    LET NumOrZero(c) == FillNa(ToNumeric(c), Num(0))
        d3 == MapColumn(d2, "promo_code_discount_percentage", NumOrZero)
    IN
    IF "item_count" \notin d3.cols THEN Outcome(d3, NoTable, "KeyError")
    ELSE
    LET d4 == MapColumn(d3, "item_count", ToNumeric) IN
    IF "customer_id" \notin d4.cols THEN Outcome(d4, NoTable, "KeyError")
    ELSE
    LET d5 == ImputeItemCount(d4) IN
    IF "is_favorite" \notin d5.cols THEN Outcome(d5, NoTable, "KeyError")
    ELSE
    LET FillNo(c) == FillNa(c, No)
        d6 == MapColumn(d5, "is_favorite", FillNo)
    IN
    IF "vendor_rating" \notin d6.cols THEN Outcome(d6, NoTable, "KeyError")
    ELSE
    LET d7 == MapColumn(d6, "vendor_rating", NumOrZero)
        d8 == DropColumns(d7, {"delivery_time"})
    IN
    IF "LOCATION_TYPE" \notin d8.cols THEN Outcome(d7, NoTable, "KeyError")
    ELSE
    LET FillOther(c) == FillNa(c, Other)
    IN Outcome(d7, MapColumn(d8, "LOCATION_TYPE", FillOther), "")

VendorCols == {"id", "latitude", "longitude", "vendor_category_en",
               "delivery_charge", "vendor_tag_name"}

\* clean_vendors, lines 130-143
clean_vendors(df) ==
    IF ~(VendorCols \subseteq df.cols) THEN Outcome(df, NoTable, "KeyError")
    ELSE Outcome(df,
                 Rename(Rename(Rename(Project(df, VendorCols),
                                      "latitude", "latitude_vendor"),
                               "longitude", "longtitude_vendor"),
                        "id", "vendor_id"),
                 "")

\* pd.merge as it would be with how='inner': a left row that matches no right
\* row is dropped
InnerMerge(left, right, keys) ==
    LET shared == (left.cols \cap right.cols) \ keys
        LName(c) == IF c \in shared THEN c \o "_x" ELSE c
        RName(c) == IF c \in shared THEN c \o "_y" ELSE c
        lcols == {LName(c) : c \in left.cols}
        rcols == {RName(c) : c \in right.cols \ keys}
        Matches(l) == SelectSeq(right.rows, LAMBDA r : \A k \in keys : r[k] = l[k])
        Joined(l, r) ==
            [c \in lcols \cup rcols |->
                IF c \in lcols
                THEN l[CHOOSE lc \in left.cols : LName(lc) = c]
                ELSE r[CHOOSE rc \in right.cols \ keys : RName(rc) = c]]
    IN Table(lcols \cup rcols,
             Concat([i \in 1..NRows(left) |->
                        [n \in 1..Len(Matches(left.rows[i])) |->
                            Joined(left.rows[i], Matches(left.rows[i])[n])]]))

\* pd.merge as it would be if a left row that matches no right row were
\* given zeros in place of missing values
ZeroFilledMerge(left, right, keys) ==
    LET shared == (left.cols \cap right.cols) \ keys
        LName(c) == IF c \in shared THEN c \o "_x" ELSE c
        RName(c) == IF c \in shared THEN c \o "_y" ELSE c
        lcols == {LName(c) : c \in left.cols}
        rcols == {RName(c) : c \in right.cols \ keys}
        Matches(l) == SelectSeq(right.rows, LAMBDA r : \A k \in keys : r[k] = l[k])
        Joined(l, r) ==
            [c \in lcols \cup rcols |->
                IF c \in lcols
                THEN l[CHOOSE lc \in left.cols : LName(lc) = c]
                ELSE r[CHOOSE rc \in right.cols \ keys : RName(rc) = c]]
        Unmatched(l) ==
            [c \in lcols \cup rcols |->
                IF c \in lcols
                THEN l[CHOOSE lc \in left.cols : LName(lc) = c]
                ELSE Num(0)]
        RowsFor(l) ==
            IF Matches(l) = <<>> THEN <<Unmatched(l)>>
            ELSE [n \in 1..Len(Matches(l)) |-> Joined(l, Matches(l)[n])]
    IN Table(lcols \cup rcols,
             Concat([i \in 1..NRows(left) |-> RowsFor(left.rows[i])]))

\* pd.merge(left, right, on=keys, how='left'): every left row in order, once
\* per matching right row in the right table's order, or once with missing
\* right-hand cells when no right row matches; a column the two sides share
\* outside the keys is suffixed _x on the left and _y on the right
LeftMerge(left, right, keys) ==
    LET shared == (left.cols \cap right.cols) \ keys
        LName(c) == IF c \in shared THEN c \o "_x" ELSE c
        RName(c) == IF c \in shared THEN c \o "_y" ELSE c
        lcols == {LName(c) : c \in left.cols}
        rcols == {RName(c) : c \in right.cols \ keys}
        Matches(l) == SelectSeq(right.rows, LAMBDA r : \A k \in keys : r[k] = l[k])
        Joined(l, r) ==
            [c \in lcols \cup rcols |->
                IF c \in lcols
                THEN l[CHOOSE lc \in left.cols : LName(lc) = c]
                ELSE r[CHOOSE rc \in right.cols \ keys : RName(rc) = c]]
        Unmatched(l) ==
            [c \in lcols \cup rcols |->
                IF c \in lcols
                THEN l[CHOOSE lc \in left.cols : LName(lc) = c]
                ELSE Null]
        RowsFor(l) ==
            IF Matches(l) = <<>> THEN <<Unmatched(l)>>
            ELSE [n \in 1..Len(Matches(l)) |-> Joined(l, Matches(l)[n])]
    IN Table(lcols \cup rcols,
             Concat([i \in 1..NRows(left) |-> RowsFor(left.rows[i])]))

CleanVendorCols == {"vendor_id", "latitude_vendor", "longtitude_vendor",
                    "vendor_category_en", "delivery_charge", "vendor_tag_name"}

\* merge_datasets, lines 145-159: the table returned and the exception
merge_datasets(cust, locs, ords, vends) ==
    IF "customer_id" \notin ords.cols \/ "customer_id" \notin cust.cols
    THEN [ret |-> NoTable, exc |-> "KeyError"]
    ELSE
    LET df_order_cust == LeftMerge(ords, cust, {"customer_id"})
        df_loc == Rename(locs, "location_number", "LOCATION_NUMBER")
    IN
    IF ~({"customer_id", "LOCATION_NUMBER"} \subseteq df_order_cust.cols)
       \/ ~({"customer_id", "LOCATION_NUMBER"} \subseteq df_loc.cols)
    THEN [ret |-> NoTable, exc |-> "KeyError"]
    ELSE
    LET df_order_full == LeftMerge(df_order_cust, df_loc,
                                   {"customer_id", "LOCATION_NUMBER"})
    IN
    IF ~(CleanVendorCols \subseteq vends.cols)
    THEN [ret |-> NoTable, exc |-> "KeyError"]
    ELSE
    IF "vendor_id" \notin df_order_full.cols
    THEN [ret |-> NoTable, exc |-> "KeyError"]
    ELSE [ret |-> LeftMerge(df_order_full, Project(vends, CleanVendorCols),
                            {"vendor_id"}),
          exc |-> ""]


(***************************************************************************)
(* The raw tables read from the bucket.                                    *)
(***************************************************************************)
\* the longest table drawn as an input of a cleaner or of the join
MaxRows == 2

CustomerIds == {1, 2}

VendorIds == {1, 2}

LocationNumbers == {0, 1}

\* all sequences over S of length at most n
SeqUpTo(S, n) == UNION {[1..k -> S] : k \in 0..n}

CustomerCols == {"akeed_customer_id", "gender", "dob", "status", "verified",
                 "language", "created_at", "updated_at"}

CustomerRow(id, upd, gender, dob) ==
    [c \in CustomerCols |->
        IF c = "akeed_customer_id" THEN id
        ELSE IF c = "updated_at" THEN upd
        ELSE IF c = "gender" THEN gender
        ELSE IF c = "dob" THEN dob
        ELSE IF c = "created_at" THEN Str(<<"1">>)
        ELSE Num(1)]

\* gender and birth year as they come in the file
CustomerProfiles ==
    {<<Str(<<" ", "m", "a", "l", "e">>), Num(1990)>>,
     <<Str(<<"F", "E", "M", "A", "L", "E">>), Str(<<"1", "9", "4", "4">>)>>,
     <<Str(<<"f", "a", "m">>), Num(2021)>>,
     <<Null, Null>>}

UpdatedValues == {Str(<<"1">>), Str(<<"2">>), Null, Str(<<"a">>)}

CustomerRows ==
    {CustomerRow(Num(id), upd, p[1], p[2]) :
        id \in CustomerIds, upd \in UpdatedValues, p \in CustomerProfiles}

RawCustomers ==
    {Table(CustomerCols, rows) : rows \in SeqUpTo(CustomerRows, MaxRows)}

LocationCols == {"customer_id", "location_number", "location_type",
                 "latitude", "longitude"}

LocationRow(cust, num, type, lat, lon) ==
    [c \in LocationCols |->
        IF c = "customer_id" THEN cust
        ELSE IF c = "location_number" THEN num
        ELSE IF c = "location_type" THEN type
        ELSE IF c = "latitude" THEN lat
        ELSE lon]

Home == Str(<<"H", "o", "m", "e">>)

\* a location with its coordinates, one without latitude, one without
\* longitude and without type
LocationDetails ==
    {<<Home, Num(1), Num(1)>>, <<Home, Null, Num(1)>>, <<Null, Num(1), Null>>,
     <<Null, Num(1), Num(1)>>}

LocationRows ==
    {LocationRow(Num(cust), Num(n), d[1], d[2], d[3]) :
        cust \in CustomerIds, n \in LocationNumbers, d \in LocationDetails}

RawLocations ==
    {Table(LocationCols, rows) : rows \in SeqUpTo(LocationRows, MaxRows)}

OrderCols == {"akeed_order_id", "customer_id", "vendor_id", "LOCATION_NUMBER",
              "LOCATION_TYPE", "created_at", "promo_code",
              "promo_code_discount_percentage", "item_count", "is_favorite",
              "vendor_rating", "grand_total", "delivery_time"}

OrderRow(cust, vendor, num, promo, count) ==
    [c \in OrderCols |->
        IF c = "customer_id" THEN cust
        ELSE IF c = "vendor_id" THEN vendor
        ELSE IF c = "LOCATION_NUMBER" THEN num
        ELSE IF c = "promo_code" THEN promo
        ELSE IF c = "item_count" THEN count
        ELSE IF c = "created_at" THEN Str(<<"3">>)
        ELSE IF c \in {"akeed_order_id", "grand_total"} THEN Num(1)
        ELSE Null]

\* promo code and item count as they come in the file
OrderDetails ==
    {<<Null, Num(1)>>, <<Str(<<"A", "1">>), Null>>, <<Null, Str(<<"4">>)>>,
     <<Str(<<"A", "1">>), Str(<<"a">>)>>}

OrderRows ==
    {OrderRow(cust, Num(v), Num(0), d[1], d[2]) :
        cust \in {Num(id) : id \in CustomerIds} \cup {Null},
        v \in VendorIds, d \in OrderDetails}

RawOrders ==
    {Table(OrderCols, rows) : rows \in SeqUpTo(OrderRows, MaxRows)}

RawVendorCols == VendorCols \cup {"vendor_rating"}

Restaurants == Str(<<"R">>)

VendorRow(id) ==
    [c \in RawVendorCols |->
        IF c = "id" THEN id
        ELSE IF c = "vendor_category_en" THEN Restaurants
        ELSE IF c = "vendor_tag_name" THEN Null
        ELSE Num(1)]

VendorRows == {VendorRow(Num(id)) : id \in VendorIds}

RawVendors ==
    {Table(RawVendorCols, rows) : rows \in SeqUpTo(VendorRows, MaxRows)}

(***************************************************************************)
(* One call of a cleaner on a raw table: the cleaners as functions.        *)
(***************************************************************************)
Cleaners == {"clean_customers", "clean_locations", "clean_orders", "clean_vendors"}

RawInputs(f) ==
    IF f = "clean_customers" THEN RawCustomers
    ELSE IF f = "clean_locations" THEN RawLocations
    ELSE IF f = "clean_orders" THEN RawOrders
    ELSE RawVendors

CleanInit ==
    /\ cl_pc = "call"
    /\ cl_func \in Cleaners
    /\ cl_in \in RawInputs(cl_func)
    /\ cl_arg = cl_in
    /\ cl_ret = NoTable
    /\ cl_exc = ""

CleanIdle ==
    /\ cl_pc = "idle"
    /\ cl_func = ""
    /\ cl_in = NoTable
    /\ cl_arg = NoTable
    /\ cl_ret = NoTable
    /\ cl_exc = ""

\* the call: the caller's object, the value returned, the exception
CleanCall(f, o) ==
    /\ UNCHANGED notCleanVars
    /\ cl_pc = "call"
    /\ cl_func = f
    /\ cl_arg' = o.arg
    /\ cl_ret' = o.ret
    /\ cl_exc' = o.exc
    /\ cl_pc' = "done"
    /\ UNCHANGED <<cl_func, cl_in>>

CallCleanCustomers == CleanCall("clean_customers", clean_customers(cl_arg))

CallCleanLocations == CleanCall("clean_locations", clean_locations(cl_arg))

CallCleanOrders == CleanCall("clean_orders", clean_orders(cl_arg))

CallCleanVendors == CleanCall("clean_vendors", clean_vendors(cl_arg))

CleanNext ==
    \/ CallCleanCustomers
    \/ CallCleanLocations
    \/ CallCleanOrders
    \/ CallCleanVendors


(***************************************************************************)
(* One call of merge_datasets on cleaned tables.                           *)
(***************************************************************************)
\* what the cleaner returns for each raw table of a set
Cleaned(raws, Clean(_)) == {Clean(t).ret : t \in {r \in raws : Clean(r).exc = ""}}

MergeCustomerRows ==
    {CustomerRow(Num(id), Str(<<"1">>), Male, Num(1990)) : id \in CustomerIds}

MergeCustomers ==
    Cleaned({Table(CustomerCols, rows) : rows \in SeqUpTo(MergeCustomerRows, MaxRows)},
            clean_customers)

\* two locations of customer 1, and one of customer 2 that has no latitude
MergeLocationRows ==
    {LocationRow(Num(1), Num(0), Home, Num(1), Num(1)),
     LocationRow(Num(1), Num(1), Null, Num(1), Num(1)),
     LocationRow(Num(2), Num(0), Home, Null, Num(1))}

MergeLocations ==
    Cleaned({Table(LocationCols, rows) : rows \in SeqUpTo(MergeLocationRows, MaxRows)},
            clean_locations)

MergeOrderRows ==
    {OrderRow(Num(1), Num(1), Num(0), Null, Num(1)),
     OrderRow(Num(1), Num(2), Num(1), Null, Num(1)),
     OrderRow(Num(2), Num(1), Num(0), Null, Num(1)),
     OrderRow(Num(2), Num(2), Num(1), Null, Num(1))}

MergeOrders ==
    Cleaned({Table(OrderCols, rows) : rows \in SeqUpTo(MergeOrderRows, MaxRows)},
            clean_orders)

MergeVendors == Cleaned(RawVendors, clean_vendors)

MergeInit ==
    /\ mg_pc = "call"
    /\ mg_customers \in MergeCustomers
    /\ mg_locations \in MergeLocations
    /\ mg_orders \in MergeOrders
    /\ mg_vendors \in MergeVendors
    /\ mg_ret = NoTable
    /\ mg_exc = ""

MergeIdle ==
    /\ mg_pc = "idle"
    /\ mg_customers = NoTable
    /\ mg_locations = NoTable
    /\ mg_orders = NoTable
    /\ mg_vendors = NoTable
    /\ mg_ret = NoTable
    /\ mg_exc = ""

CallMerge ==
    /\ UNCHANGED notMergeVars
    /\ mg_pc = "call"
    /\ LET o == merge_datasets(mg_customers, mg_locations, mg_orders, mg_vendors)
       IN /\ mg_ret' = o.ret
          /\ mg_exc' = o.exc
    /\ mg_pc' = "done"
    /\ UNCHANGED <<mg_customers, mg_locations, mg_orders, mg_vendors>>

MergeNext == CallMerge

(***************************************************************************)
(* lambda_handler                                                          *)
(***************************************************************************)
customer_key == "train_customers.csv"

location_key == "train_locations.csv"

order_key == "orders.csv"

vendor_key == "vendors.csv"

output_key == "processed_data/order_clean_join_all.csv"

\* the steps of the try block, in program order
StepOrder ==
    <<"read_customers", "read_locations", "read_orders", "read_vendors",
      "clean_customers", "clean_locations", "clean_orders", "clean_vendors",
      "merge", "upload">>

GoodCustomers ==
    Table(CustomerCols,
          <<CustomerRow(Num(1), Str(<<"1">>), Str(<<" ", "m", "a", "l", "e">>), Num(1990)),
            CustomerRow(Num(1), Str(<<"2">>), Null, Num(1990))>>)

GoodLocations ==
    Table(LocationCols,
          <<LocationRow(Num(1), Num(0), Home, Num(1), Num(1)),
            LocationRow(Num(1), Num(1), Null, Null, Num(1))>>)

GoodOrders ==
    Table(OrderCols,
          <<OrderRow(Num(1), Num(1), Num(0), Null, Num(1)),
            OrderRow(Num(1), Num(2), Num(1), Str(<<"A", "1">>), Null)>>)

GoodVendors == Table(RawVendorCols, <<VendorRow(Num(1)), VendorRow(Num(2))>>)

\* what each key of the bucket may hold: a complete file, an empty one, or a
\* file that lacks a column the cleaner or the join needs
BucketObjects(key) ==
    IF key = customer_key
    THEN {GoodCustomers, DropColumns(GoodCustomers, {"gender"}),
          Table(CustomerCols, <<>>)}
    ELSE IF key = location_key
    THEN {GoodLocations, DropColumns(GoodLocations, {"latitude"}),
          DropColumns(GoodLocations, {"location_number"})}
    ELSE IF key = order_key
    THEN {GoodOrders, DropColumns(GoodOrders, {"promo_code"}),
          DropColumns(GoodOrders, {"vendor_id"})}
    ELSE {GoodVendors, DropColumns(GoodVendors, {"vendor_tag_name"}),
          Table(RawVendorCols, <<VendorRow(Num(1)), VendorRow(Num(1))>>)}

NotReturned == [statusCode |-> 0, message |-> ""]

LamInit ==
    /\ lam_pc = "read_customers"
    /\ customers = NoTable
    /\ locations = NoTable
    /\ orders = NoTable
    /\ vendors = NoTable
    /\ cleaned_customers = NoTable
    /\ cleaned_locations = NoTable
    /\ cleaned_orders = NoTable
    /\ cleaned_vendors = NoTable
    /\ final_data = NoTable
    /\ lam_trace = <<>>
    /\ lam_exc = ""
    /\ lam_failed_step = ""
    /\ s3_puts = <<>>
    /\ lam_result = NotReturned

LamIdle ==
    /\ lam_pc = "idle"
    /\ customers = NoTable
    /\ locations = NoTable
    /\ orders = NoTable
    /\ vendors = NoTable
    /\ cleaned_customers = NoTable
    /\ cleaned_locations = NoTable
    /\ cleaned_orders = NoTable
    /\ cleaned_vendors = NoTable
    /\ final_data = NoTable
    /\ lam_trace = <<>>
    /\ lam_exc = ""
    /\ lam_failed_step = ""
    /\ s3_puts = <<>>
    /\ lam_result = NotReturned

\* the step after a step of the try block
NextStep(step) ==
    LET i == CHOOSE k \in 1..Len(StepOrder) : StepOrder[k] = step
    IN IF i < Len(StepOrder) THEN StepOrder[i + 1] ELSE "return"

\* a step of the try block completed
LamDone(step) ==
    /\ lam_pc' = NextStep(step)
    /\ lam_trace' = Append(lam_trace, step)
    /\ UNCHANGED <<lam_exc, lam_failed_step>>

\* a step of the try block raised: control goes to the except clause
LamFail(step, exc) ==
    /\ lam_pc' = "except"
    /\ lam_exc' = exc
    /\ lam_failed_step' = step
    /\ UNCHANGED lam_trace

\* lines 35-38 and read_csv_from_s3: get_object may fail, the helper logs
\* and re-raises
LamRead ==
    /\ UNCHANGED notLamVars
    /\ lam_pc \in {"read_customers", "read_locations", "read_orders", "read_vendors"}
    /\ \/ /\ LamFail(lam_pc, "ClientError")
          /\ UNCHANGED <<customers, locations, orders, vendors>>
       \/ /\ lam_pc = "read_customers"
          /\ customers' \in BucketObjects(customer_key)
          /\ LamDone(lam_pc)
          /\ UNCHANGED <<locations, orders, vendors>>
       \/ /\ lam_pc = "read_locations"
          /\ locations' \in BucketObjects(location_key)
          /\ LamDone(lam_pc)
          /\ UNCHANGED <<customers, orders, vendors>>
       \/ /\ lam_pc = "read_orders"
          /\ orders' \in BucketObjects(order_key)
          /\ LamDone(lam_pc)
          /\ UNCHANGED <<customers, locations, vendors>>
       \/ /\ lam_pc = "read_vendors"
          /\ vendors' \in BucketObjects(vendor_key)
          /\ LamDone(lam_pc)
          /\ UNCHANGED <<customers, locations, orders>>
    /\ UNCHANGED <<cleaned_customers, cleaned_locations, cleaned_orders,
                   cleaned_vendors, final_data, s3_puts, lam_result>>

\* a cleaner returned or raised
LamCleaned(step, o) ==
    IF o.exc = "" THEN LamDone(step) ELSE LamFail(step, o.exc)

\* line 40
LamCleanCustomers ==
    /\ UNCHANGED notLamVars
    /\ lam_pc = "clean_customers"
    /\ LET o == clean_customers(customers)
       IN /\ customers' = o.arg
          /\ cleaned_customers' = o.ret
          /\ LamCleaned("clean_customers", o)
    /\ UNCHANGED <<locations, orders, vendors, cleaned_locations,
                   cleaned_orders, cleaned_vendors, final_data, s3_puts,
                   lam_result>>

\* line 41 as it would be if the exception of the cleaner were swallowed and
\* the handler went on with the next step
LamCleanLocationsSwallow ==
    /\ UNCHANGED notLamVars
    /\ lam_pc = "clean_locations"
    /\ LET o == clean_locations(locations)
       IN /\ locations' = o.arg
          /\ cleaned_locations' = o.ret
          /\ IF o.exc = "" THEN LamDone("clean_locations")
             ELSE /\ lam_pc' = NextStep("clean_locations")
                  /\ lam_exc' = o.exc
                  /\ lam_failed_step' = "clean_locations"
                  /\ UNCHANGED lam_trace
    /\ UNCHANGED <<customers, orders, vendors, cleaned_customers,
                   cleaned_orders, cleaned_vendors, final_data, s3_puts,
                   lam_result>>

\* line 41
LamCleanLocations ==
    /\ UNCHANGED notLamVars
    /\ lam_pc = "clean_locations"
    /\ LET o == clean_locations(locations)
       IN /\ locations' = o.arg
          /\ cleaned_locations' = o.ret
          /\ LamCleaned("clean_locations", o)
    /\ UNCHANGED <<customers, orders, vendors, cleaned_customers,
                   cleaned_orders, cleaned_vendors, final_data, s3_puts,
                   lam_result>>

\* line 42
LamCleanOrders ==
    /\ UNCHANGED notLamVars
    /\ lam_pc = "clean_orders"
    /\ LET o == clean_orders(orders)
       IN /\ orders' = o.arg
          /\ cleaned_orders' = o.ret
          /\ LamCleaned("clean_orders", o)
    /\ UNCHANGED <<customers, locations, vendors, cleaned_customers,
                   cleaned_locations, cleaned_vendors, final_data, s3_puts,
                   lam_result>>

\* line 43
LamCleanVendors ==
    /\ UNCHANGED notLamVars
    /\ lam_pc = "clean_vendors"
    /\ LET o == clean_vendors(vendors)
       IN /\ vendors' = o.arg
          /\ cleaned_vendors' = o.ret
          /\ LamCleaned("clean_vendors", o)
    /\ UNCHANGED <<customers, locations, orders, cleaned_customers,
                   cleaned_locations, cleaned_orders, final_data, s3_puts,
                   lam_result>>

\* line 45
LamMerge ==
    /\ UNCHANGED notLamVars
    /\ lam_pc = "merge"
    /\ LET o == merge_datasets(cleaned_customers, cleaned_locations,
                               cleaned_orders, cleaned_vendors)
       IN /\ final_data' = o.ret
          /\ LamCleaned("merge", o)
    /\ UNCHANGED <<customers, locations, orders, vendors, cleaned_customers,
                   cleaned_locations, cleaned_orders, cleaned_vendors,
                   s3_puts, lam_result>>

\* line 47 and upload_to_s3: put_object may fail, the helper logs and
\* re-raises
LamUpload ==
    /\ UNCHANGED notLamVars
    /\ lam_pc = "upload"
    /\ \/ /\ s3_puts' = Append(s3_puts, [key |-> output_key, body |-> final_data])
          /\ LamDone("upload")
       \/ /\ LamFail("upload", "ClientError")
          /\ UNCHANGED s3_puts
    /\ UNCHANGED <<customers, locations, orders, vendors, cleaned_customers,
                   cleaned_locations, cleaned_orders, cleaned_vendors,
                   final_data, lam_result>>

\* lines 49-54
LamReturn ==
    /\ UNCHANGED notLamVars
    /\ lam_pc = "return"
    /\ lam_result' = [statusCode |-> 200,
                      message |-> "Data processing complete. File saved to " \o output_key]
    /\ lam_pc' = "returned"
    /\ UNCHANGED <<customers, locations, orders, vendors, cleaned_customers,
                   cleaned_locations, cleaned_orders, cleaned_vendors,
                   final_data, lam_trace, lam_exc, lam_failed_step, s3_puts>>

\* lines 56-61 as they would be if the handler re-raised
LamExceptReraise ==
    /\ UNCHANGED notLamVars
    /\ lam_pc = "except"
    /\ lam_pc' = "raised"
    /\ UNCHANGED <<customers, locations, orders, vendors, cleaned_customers,
                   cleaned_locations, cleaned_orders, cleaned_vendors,
                   final_data, lam_trace, lam_exc, lam_failed_step, s3_puts,
                   lam_result>>

\* lines 56-61: except Exception as e
LamExcept ==
    /\ UNCHANGED notLamVars
    /\ lam_pc = "except"
    /\ lam_result' = [statusCode |-> 500, message |-> lam_exc]
    /\ lam_pc' = "returned"
    /\ UNCHANGED <<customers, locations, orders, vendors, cleaned_customers,
                   cleaned_locations, cleaned_orders, cleaned_vendors,
                   final_data, lam_trace, lam_exc, lam_failed_step, s3_puts>>

LamNext ==
    \/ LamRead
    \/ LamCleanCustomers
    \/ LamCleanLocations
    \/ LamCleanOrders
    \/ LamCleanVendors
    \/ LamMerge
    \/ LamUpload
    \/ LamReturn
    \/ LamExcept

(***************************************************************************)
(* RFM (backend/src/rfm.py).  Dates are day numbers and a calendar month   *)
(* is thirty days; a quotient is kept exact, as a fraction.                *)
(***************************************************************************)
RECURSIVE Gcd(_, _)
Gcd(a, b) == IF b = 0 THEN a ELSE Gcd(b, a % b)

Abs(n) == IF n < 0 THEN -n ELSE n

\* the float n / d: a fraction in lowest terms, inf or NaN
Quotient(n, d) ==
    IF d = 0 THEN (IF n = 0 THEN Null ELSE <<"inf", IF n > 0 THEN 1 ELSE -1>>)
    ELSE LET g == Gcd(Abs(n), Abs(d))
             sgn == IF d < 0 THEN -1 ELSE 1
         IN <<"rat", <<sgn * (n \div g), sgn * (d \div g)>>>>

\* the product of two floats
Product(a, b) ==
    IF IsNull(a) \/ IsNull(b) THEN Null
    ELSE IF a[1] = "inf" \/ b[1] = "inf"
    THEN (IF (a[1] = "rat" /\ a[2][1] = 0) \/ (b[1] = "rat" /\ b[2][1] = 0)
          THEN Null ELSE <<"inf", 1>>)
    ELSE Quotient(a[2][1] * b[2][1], a[2][2] * b[2][2])

RECURSIVE SumSeq(_)
SumSeq(ns) == IF ns = <<>> THEN 0 ELSE Head(ns) + SumSeq(Tail(ns))

RECURSIVE SumFractions(_)
\* the sum of a sequence of fractions <<n, d>>, as a pair
SumFractions(fs) ==
    IF fs = <<>> THEN <<0, 1>>
    ELSE LET r == SumFractions(Tail(fs))
         IN <<Head(fs)[1] * r[2] + r[1] * Head(fs)[2], Head(fs)[2] * r[2]>>

MonthOf(day) == day \div 30

RfmCols == {"customer_id", "created_at", "akeed_order_id", "grand_total"}

\* the non-missing customer ids of a table, ascending
CustomersOf(t) ==
    SortedSeq({t.rows[i]["customer_id"][2] :
                 i \in {j \in 1..NRows(t) : ~IsNull(t.rows[j]["customer_id"])}})

\* the payloads of the non-missing cells of column c among customer k's rows
ValuesOf(t, k, c) ==
    LET mine == SelectSeq(t.rows, LAMBDA r : r["customer_id"] = Num(k) /\ ~IsNull(r[c]))
    IN [i \in 1..Len(mine) |-> mine[i][c][2]]

\* RFM.preprocess, lines 55-73: self.df, self.rfm_df and the exception
RfmPreprocess(df, snapshot_date) ==
    IF ~(RfmCols \subseteq df.cols)
    THEN [df |-> df, rfm_df |-> NoTable, exc |-> "KeyError"]
    ELSE IF \E i \in 1..NRows(df) : ~Parseable(df.rows[i]["created_at"])
    THEN [df |-> Project(df, RfmCols), rfm_df |-> NoTable, exc |-> "ValueError"]
    ELSE
    LET d == WithColumn(Project(df, RfmCols), "order_date",
                 [i \in 1..NRows(df) |-> ToDatetime(df.rows[i]["created_at"])])
        ids == CustomersOf(d)
        Dates(k) == ValuesOf(d, k, "order_date")
        Latest(k) == CHOOSE x \in {Dates(k)[i] : i \in 1..Len(Dates(k))} :
                        \A i \in 1..Len(Dates(k)) : Dates(k)[i] <= x
    IN
    IF \E n \in 1..Len(ids) : Dates(ids[n]) = <<>>
    THEN [df |-> d, rfm_df |-> NoTable, exc |-> "TypeError"]
    ELSE [df |-> d,
          rfm_df |-> Table({"customer_id", "Recency", "Frequency", "Monetary"},
              [n \in 1..Len(ids) |->
                  [customer_id |-> Num(ids[n]),
                   Recency |-> Num(snapshot_date - Latest(ids[n])),
                   Frequency |-> Num(Len(ValuesOf(d, ids[n], "akeed_order_id"))),
                   Monetary |-> Num(SumSeq(ValuesOf(d, ids[n], "grand_total")))]]),
          exc |-> ""]

\* series.map(cluster_mapping) as it would be with a default name for the
\* cluster ids the mapping does not list
MapClusterDefault(cluster_mapping, c) ==
    IF c \in DOMAIN cluster_mapping THEN cluster_mapping[c] ELSE Str(<<"O">>)

\* series.map(cluster_mapping) on one cluster id
MapCluster(cluster_mapping, c) ==
    IF c \in DOMAIN cluster_mapping THEN cluster_mapping[c] ELSE Null

\* RFM._train_model, lines 76-98, for the labels K-Means gave the rows
RfmTrain(rfm_df, labels, cluster_mapping) ==
    WithColumn(WithColumn(rfm_df, "K-Means", [i \in 1..NRows(rfm_df) |-> Num(labels[i])]),
               "Segment",
               [i \in 1..NRows(rfm_df) |-> MapCluster(cluster_mapping, labels[i])])

\* RFM.clv_calculation, lines 100-147: the new self.rfm_labeled
RfmClv(df, rfm_labeled, cluster_mapping) ==
    LET SegmentOf(cust) ==
            IF \E i \in 1..NRows(rfm_labeled) : rfm_labeled.rows[i]["customer_id"] = cust
            THEN rfm_labeled.rows[CHOOSE i \in 1..NRows(rfm_labeled) :
                                     rfm_labeled.rows[i]["customer_id"] = cust]["Segment"]
            ELSE Null
        \* lines 106-108: the order rows that fall in a (Segment, year_month) group
        InGroup(seg, m) ==
            {i \in 1..NRows(df) :
                /\ SegmentOf(df.rows[i]["customer_id"]) = seg
                /\ ~IsNull(df.rows[i]["order_date"])
                /\ MonthOf(df.rows[i]["order_date"][2]) = m}
        MonthsOf(seg) ==
            {MonthOf(df.rows[i]["order_date"][2]) :
                i \in {j \in 1..NRows(df) :
                         /\ SegmentOf(df.rows[j]["customer_id"]) = seg
                         /\ ~IsNull(df.rows[j]["order_date"])}}
        \* lines 110-115
        OrdersIn(seg, m) ==
            Cardinality({i \in InGroup(seg, m) : ~IsNull(df.rows[i]["akeed_order_id"])})
        UsersIn(seg, m) ==
            Cardinality({df.rows[i]["customer_id"] : i \in InGroup(seg, m)})
        \* lines 116-119: the mean over the segment's months
        AvgMonthly(seg) ==
            LET ms == SortedSeq(MonthsOf(seg))
                total == SumFractions([n \in 1..Len(ms) |->
                            <<OrdersIn(seg, ms[n]), UsersIn(seg, ms[n])>>])
            IN Quotient(total[1], total[2] * Len(ms))
        \* lines 121-129: one row per cluster id
        clusters == SortedSeq({rfm_labeled.rows[i]["K-Means"][2] : i \in 1..NRows(rfm_labeled)})
        Members(c) == SelectSeq(rfm_labeled.rows, LAMBDA r : r["K-Means"] = Num(c))
        AvgOrderValue(c) ==
            Quotient(SumSeq([i \in 1..Len(Members(c)) |-> Members(c)[i]["Monetary"][2]]),
                     SumSeq([i \in 1..Len(Members(c)) |-> Members(c)[i]["Frequency"][2]]))
        \* lines 131-137: clv_df holds, for a segment, one row per cluster that
        \* maps to it
        ClvRows(seg) ==
            IF IsNull(seg) \/ MonthsOf(seg) = {} THEN <<>>
            ELSE LET cs == SelectSeq(clusters,
                              LAMBDA c : MapCluster(cluster_mapping, c) = seg)
                 IN [n \in 1..Len(cs) |-> Product(AvgMonthly(seg), AvgOrderValue(cs[n]))]
        \* lines 139-144: the left merge on Segment
        RowsFor(r) ==
            IF ClvRows(r["Segment"]) = <<>>
            THEN <<[customer_id |-> r["customer_id"], Segment |-> r["Segment"],
                    CLV_30 |-> Null]>>
            ELSE [n \in 1..Len(ClvRows(r["Segment"])) |->
                    [customer_id |-> r["customer_id"], Segment |-> r["Segment"],
                     CLV_30 |-> ClvRows(r["Segment"])[n]]]
    IN Table({"customer_id", "Segment", "CLV_30"},
             Concat([i \in 1..NRows(rfm_labeled) |-> RowsFor(rfm_labeled.rows[i])]))

(***************************************************************************)
(* FOOD (backend/src/food.py).  A tag list is a string of one-character    *)
(* tags separated by commas.                                               *)
(***************************************************************************)
RECURSIVE SetToSeq(_)
\* the elements of a finite set in some fixed order
SetToSeq(S) ==
    IF S = {} THEN <<>>
    ELSE LET x == CHOOSE y \in S : TRUE
         IN <<x>> \o SetToSeq(S \ {x})

\* the tags of one vendor_tag_name cell (str.get_dummies(sep=','))
TagsOf(c) ==
    IF c[1] # "str" THEN {}
    ELSE {c[2][i] : i \in {j \in 1..Len(c[2]) : c[2][j] # ","}}

\* FOOD.preprocess, lines 50-59: self.food_df and the exception
FoodPreprocess(df, columns) ==
    IF "vendor_tag_name" \notin df.cols THEN [food_df |-> NoTable, exc |-> "KeyError"]
    ELSE IF NRows(df) > 0 /\ \A i \in 1..NRows(df) : df.rows[i]["vendor_tag_name"][1] # "str"
    THEN [food_df |-> NoTable, exc |-> "AttributeError"]
    ELSE
    LET tags == UNION {TagsOf(df.rows[i]["vendor_tag_name"]) : i \in 1..NRows(df)}
        rest == df.cols \ {"vendor_tag_name"}
        expanded ==
            Table(rest \cup tags,
                  [i \in 1..NRows(df) |->
                      [c \in rest \cup tags |->
                          IF c \in tags
                          THEN Num(IF c \in TagsOf(df.rows[i]["vendor_tag_name"]) THEN 1 ELSE 0)
                          ELSE df.rows[i][c]]])
    IN IF columns \subseteq expanded.cols
       THEN [food_df |-> Project(expanded, columns), exc |-> ""]
       ELSE [food_df |-> NoTable, exc |-> "KeyError"]

\* FOOD.aggregate_cuisines, lines 61-82: self.aggregated_df and the exception
FoodAggregate(food_df, food_mapping) ==
    LET columns_to_keep == UNION {food_mapping[cat] : cat \in DOMAIN food_mapping}
        available_cols == food_df.cols \cap columns_to_keep
    IN
    IF "customer_id" \notin food_df.cols
    THEN [aggregated_df |-> NoTable, exc |-> "KeyError"]
    ELSE
    LET filtered_df == Project(food_df, {"customer_id"} \cup available_cols)
        Valid(cat) == SetToSeq(food_mapping[cat] \cap filtered_df.cols)
    IN [aggregated_df |->
           Table({"customer_id"} \cup DOMAIN food_mapping,
                 [i \in 1..NRows(filtered_df) |->
                     [c \in {"customer_id"} \cup DOMAIN food_mapping |->
                         IF c = "customer_id" THEN filtered_df.rows[i]["customer_id"]
                         ELSE Num(SumSeq([n \in 1..Len(Valid(c)) |->
                                            filtered_df.rows[i][Valid(c)[n]][2]]))]]),
        exc |-> ""]

\* FOOD.cluster, lines 84-101, for the labels K-Means gave the rows
FoodCluster(aggregated_df, labels, cluster_mapping) ==
    Table({"customer_id", "Segment"},
          [i \in 1..NRows(aggregated_df) |->
              [customer_id |-> aggregated_df.rows[i]["customer_id"],
               Segment |-> MapCluster(cluster_mapping, labels[i])]])


(***************************************************************************)
(* The pipeline script (backend/pipeline.py, lines 56-114).                *)
(***************************************************************************)
\* one row of the table the database holds
JoinedRow(cust, created, order, total, vendor, category, tags) ==
    [customer_id |-> Num(cust), created_at |-> Str(created),
     akeed_order_id |-> Num(order), grand_total |-> Num(total),
     vendor_id |-> Num(vendor), vendor_category_en |-> Str(category),
     vendor_tag_name |-> Str(tags)]

JoinedCols == {"customer_id", "created_at", "akeed_order_id", "grand_total",
               "vendor_id", "vendor_category_en", "vendor_tag_name"}

\* customer 1 ordered twice, in two different months; customer 2 once
GoodJoined ==
    Table(JoinedCols,
          <<JoinedRow(1, <<"5">>, 1, 10, 1, <<"R">>, <<"I">>),
            JoinedRow(1, <<"4", "0">>, 2, 20, 2, <<"R">>, <<"C">>),
            JoinedRow(2, <<"7">>, 3, 30, 1, <<"R">>, <<"I", ",", "C">>)>>)

\* every customer ordered once
OneOrderEach ==
    Table(JoinedCols,
          <<JoinedRow(1, <<"5">>, 1, 10, 1, <<"R">>, <<"I">>),
            JoinedRow(2, <<"7">>, 3, 30, 1, <<"R">>, <<"C">>)>>)

\* the tables acquire_data_rds may return: the good ones, one without the
\* order totals and one without the vendor category
PipelineTables ==
    {GoodJoined, OneOrderEach,
     Project(GoodJoined, JoinedCols \ {"grand_total"}),
     Project(OneOrderEach, JoinedCols \ {"vendor_category_en"})}

Loyal == Str(<<"L">>)

AtRisk == Str(<<"A">>)

\* rfm.cluster_mapping: one name per cluster, one name for both clusters, or
\* no name for cluster 1
RfmMappings == {(0 :> Loyal) @@ (1 :> AtRisk),
                (0 :> Loyal) @@ (1 :> Loyal),
                (0 :> Loyal)}

\* food.columns: the columns kept by FOOD.preprocess; the second asks for a
\* tag "M" that no vendor carries
FoodColumns == {{"customer_id", "I", "C"}, {"customer_id", "I", "C", "M"}}

\* food.food_mapping: category -> tags; no vendor carries tag "P"
FoodMapping == [Italian |-> {"I", "P"}, Asian |-> {"C"}]

FoodClusterMapping == (0 :> Str(<<"I">>)) @@ (1 :> Str(<<"A">>))

\* config["aws_rs"]: upload absent, upload enabled with every key, upload
\* enabled without the region
PipelineAwsConfigs ==
    {[keys |-> {}, upload |-> FALSE],
     [keys |-> AwsKeys, upload |-> TRUE],
     [keys |-> AwsKeys \ {"region"}, upload |-> TRUE]}

Configs ==
    [aws_eda : [upload : BOOLEAN],
     aws_clustering : [upload : BOOLEAN],
     rfm : [snapshot_date : {90}, n_clusters : {2}, cluster_mapping : RfmMappings],
     food : [columns : FoodColumns, food_mapping : {FoodMapping},
             cluster_mapping : {FoodClusterMapping}, num_clusters : {2}]]

\* the labels KMeans.fit_predict may give n samples with k clusters
Labelings(n, k) == [1..n -> 0..(k - 1)]

\* RFM.run, lines 149-158, up to the labels of K-Means: preprocess and the
\* check of KMeans that there are at least n_clusters samples
RfmBeforeTraining(df, cfg) ==
    LET pre == RfmPreprocess(df, cfg.snapshot_date)
    IN IF pre.exc = "" /\ NRows(pre.rfm_df) < cfg.n_clusters
       THEN [df |-> pre.df, rfm_df |-> pre.rfm_df, exc |-> "ValueError"]
       ELSE pre

\* RFM.run, lines 149-158, from the labels of K-Means on
RfmAfterTraining(pre, labels, cfg) ==
    RfmClv(pre.df, RfmTrain(pre.rfm_df, labels, cfg.cluster_mapping),
           cfg.cluster_mapping)

\* FOOD.run, lines 103-112, up to the labels of K-Means
FoodBeforeClustering(df, cfg) ==
    LET pre == FoodPreprocess(df, cfg.columns)
    IN IF pre.exc # "" THEN [aggregated_df |-> NoTable, exc |-> pre.exc]
       ELSE LET agg == FoodAggregate(pre.food_df, cfg.food_mapping)
            IN IF agg.exc = "" /\ NRows(agg.aggregated_df) < cfg.num_clusters
               THEN [aggregated_df |-> agg.aggregated_df, exc |-> "ValueError"]
               ELSE agg

PipeIdle ==
    /\ pipe_pc = "idle"
    /\ config = EmptyDict
    /\ pipe_df = NoTable
    /\ rfm_result = NoTable
    /\ food_result = NoTable
    /\ joined_df = NoTable
    /\ published = <<>>
    /\ pipe_exc = ""
    /\ pipe_failed = ""
    /\ pipe_log = <<>>

\* lines 46-54: the configuration is loaded, nothing has run
PipeInit ==
    /\ pipe_pc = "acquire"
    /\ config \in Configs
    /\ pipe_df = NoTable
    /\ rfm_result = NoTable
    /\ food_result = NoTable
    /\ joined_df = NoTable
    /\ published = <<>>
    /\ pipe_exc = ""
    /\ pipe_failed = ""
    /\ pipe_log = <<>>

\* an exception leaves the script: the interpreter ends the run with it
PipeTerminate(step, exc) ==
    /\ pipe_pc' = "terminated"
    /\ pipe_exc' = exc
    /\ pipe_failed' = step

\* line 58: df = ad.acquire_data_rds(config)
PipeAcquire ==
    /\ UNCHANGED notPipeVars
    /\ UNCHANGED recVars
    /\ pipe_pc = "acquire"
    /\ \E ok \in BOOLEAN :
         IF ok
         THEN /\ pipe_df' \in PipelineTables
              /\ pipe_pc' = "eda"
              /\ UNCHANGED <<pipe_exc, pipe_failed>>
         ELSE /\ PipeTerminate("acquire", "OperationalError")
              /\ UNCHANGED pipe_df
    /\ UNCHANGED <<config, rfm_result, food_result, joined_df, published, pipe_log>>

\* lines 61-73: the exploratory analysis, when its upload is enabled
PipeEda ==
    /\ UNCHANGED notPipeVars
    /\ UNCHANGED recVars
    /\ pipe_pc = "eda"
    /\ IF config.aws_eda.upload
       THEN \E ok \in BOOLEAN :
              IF ok
              THEN /\ pipe_pc' = "rfm"
                   /\ UNCHANGED <<pipe_exc, pipe_failed>>
              ELSE PipeTerminate("eda", "ClientError")
       ELSE /\ pipe_pc' = "rfm"
            /\ UNCHANGED <<pipe_exc, pipe_failed>>
    /\ UNCHANGED <<config, pipe_df, rfm_result, food_result, joined_df,
                   published, pipe_log>>

\* lines 76-77: rfm_df = RFM(df).run()
PipeRfm ==
    /\ UNCHANGED notPipeVars
    /\ UNCHANGED recVars
    /\ pipe_pc = "rfm"
    /\ LET pre == RfmBeforeTraining(pipe_df, config.rfm)
       IN IF pre.exc # ""
          THEN /\ PipeTerminate("rfm", pre.exc)
               /\ UNCHANGED rfm_result
          ELSE /\ \E labels \in Labelings(NRows(pre.rfm_df), config.rfm.n_clusters) :
                    rfm_result' = RfmAfterTraining(pre, labels, config.rfm)
               /\ pipe_pc' = "food"
               /\ UNCHANGED <<pipe_exc, pipe_failed>>
    /\ UNCHANGED <<config, pipe_df, food_result, joined_df, published, pipe_log>>

\* lines 78-79: food_df = FOOD(df).run()
PipeFood ==
    /\ UNCHANGED notPipeVars
    /\ UNCHANGED recVars
    /\ pipe_pc = "food"
    /\ LET pre == FoodBeforeClustering(pipe_df, config.food)
       IN IF pre.exc # ""
          THEN /\ PipeTerminate("food", pre.exc)
               /\ UNCHANGED food_result
          ELSE /\ \E labels \in Labelings(NRows(pre.aggregated_df),
                                          config.food.num_clusters) :
                    food_result' = FoodCluster(pre.aggregated_df, labels,
                                               config.food.cluster_mapping)
               /\ pipe_pc' = "merge"
               /\ UNCHANGED <<pipe_exc, pipe_failed>>
    /\ UNCHANGED <<config, pipe_df, rfm_result, joined_df, published, pipe_log>>

\* line 81: joined_df = rfm_df.merge(food_df, on="customer_id", how="left")
PipeMerge ==
    /\ UNCHANGED notPipeVars
    /\ UNCHANGED recVars
    /\ pipe_pc = "merge"
    /\ joined_df' = LeftMerge(rfm_result, food_result, {"customer_id"})
    /\ pipe_pc' = "publish"
    /\ UNCHANGED <<config, pipe_df, rfm_result, food_result, published,
                   pipe_exc, pipe_failed, pipe_log>>

\* lines 84-94: upload_clustering_to_s3(joined_df), when enabled
PipePublish ==
    /\ UNCHANGED notPipeVars
    /\ UNCHANGED recVars
    /\ pipe_pc = "publish"
    /\ IF config.aws_clustering.upload
       THEN \E ok \in BOOLEAN :
              IF ok
              THEN /\ published' = Append(published, joined_df)
                   /\ pipe_pc' = "recommender"
                   /\ UNCHANGED <<pipe_exc, pipe_failed>>
              ELSE /\ PipeTerminate("publish", "ClientError")
                   /\ UNCHANGED published
       ELSE /\ pipe_pc' = "recommender"
            /\ UNCHANGED <<published, pipe_exc, pipe_failed>>
    /\ UNCHANGED <<config, pipe_df, rfm_result, food_result, joined_df, pipe_log>>

RecommenderCols == {"customer_id", "vendor_id", "vendor_category_en"}

\* the handler of the try of step 4, lines 112-114: two error records, and
\* the script goes on to its end
PipeCaught(exc) ==
    /\ pipe_log' = pipe_log \o <<"Failed to upload recommender models: " \o exc,
                                 "Recommender pipeline failed.">>
    /\ pipe_failed' = "recommender"
    /\ pipe_pc' = "done"
    /\ UNCHANGED pipe_exc

\* line 99: rs = Recommender(config, df); _data_preprocess raises KeyError
\* when one of its three columns is absent
PipeRecommender ==
    /\ UNCHANGED notPipeVars
    /\ pipe_pc = "recommender"
    /\ rec_pc = "idle"
    /\ IF RecommenderCols \subseteq pipe_df.cols
       THEN /\ rec_pc' = "check_flag"
            /\ pipe_pc' = "upload_models"
            /\ UNCHANGED <<pipe_exc, pipe_failed, pipe_log>>
       ELSE /\ PipeCaught("KeyError")
            /\ UNCHANGED rec_pc
    /\ UNCHANGED <<aws_config, model_idx, upload_status, s3_clients,
                   upload_calls, trained, tmp_files, tmp_name, stdout, rec_ret,
                   rec_failed_at>>
    /\ UNCHANGED <<config, pipe_df, rfm_result, food_result, joined_df, published>>

\* lines 102-111: the record logged for the dict upload_models_to_s3 returned
StatusRecord(status) ==
    IF DOMAIN status = {}
    THEN "No upload status returned from recommender"
    ELSE IF "upload_enabled" \in DOMAIN status /\ status["upload_enabled"] = FALSE
    THEN "Recommender models trained but upload was disabled in configuration"
    ELSE IF \A k \in DOMAIN status : status[k]
    THEN "All recommender models were successfully uploaded"
    ELSE "Some recommender models failed to upload to S3"

\* lines 100-111: upload_models_to_s3 returned; one warning or info record
PipeUploadStatus ==
    /\ UNCHANGED notPipeVars
    /\ UNCHANGED recVars
    /\ pipe_pc = "upload_models"
    /\ rec_pc = "returned"
    /\ pipe_log' = Append(pipe_log, StatusRecord(rec_ret))
    /\ pipe_pc' = "done"
    /\ UNCHANGED <<config, pipe_df, rfm_result, food_result, joined_df,
                   published, pipe_exc, pipe_failed>>

\* lines 112-114 as they would be if the handler re-raised
PipeExceptReraise ==
    /\ UNCHANGED notPipeVars
    /\ UNCHANGED recVars
    /\ pipe_pc = "upload_models"
    /\ rec_pc = "raised"
    /\ PipeTerminate("recommender", rec_failed_at)
    /\ UNCHANGED <<config, pipe_df, rfm_result, food_result, joined_df,
                   published, pipe_log>>

\* lines 112-114: upload_models_to_s3 raised
PipeExcept ==
    /\ UNCHANGED notPipeVars
    /\ UNCHANGED recVars
    /\ pipe_pc = "upload_models"
    /\ rec_pc = "raised"
    /\ PipeCaught(rec_failed_at)
    /\ UNCHANGED <<config, pipe_df, rfm_result, food_result, joined_df, published>>

\* the methods of the recommender run while the script waits in line 100
PipeNext ==
    \/ PipeAcquire
    \/ PipeEda
    \/ PipeRfm
    \/ PipeFood
    \/ PipeMerge
    \/ PipePublish
    \/ PipeRecommender
    \/ PipeUploadStatus
    \/ PipeExcept
    \/ RecCheckFlag
    \/ RecCreateClient
    \/ RecBuildTrainset
    \/ RecLoop
    \/ RecBuild
    \/ RecFit
    \/ RecFitRedirected
    \/ RecRestoreStdout
    \/ RecDump
    \/ RecUpload
    \/ RecCleanup


(***************************************************************************)
(* One call of a method of Recommender: the methods as functions.          *)
(***************************************************************************)
None == "None"

FnIdle ==
    /\ fn_pc = "idle"
    /\ fn_name = ""
    /\ fn_args = EmptyDict
    /\ fn_ret = None
    /\ fn_exc = ""

\* the call returned or raised
FnCall(name, o) ==
    /\ UNCHANGED notFnVars
    /\ fn_pc = "call"
    /\ fn_name = name
    /\ fn_ret' = o.ret
    /\ fn_exc' = o.exc
    /\ fn_pc' = "done"
    /\ UNCHANGED <<fn_name, fn_args>>

\* the model types a caller may ask for: the five known ones, and names that
\* are none of them (another case, a prefix, the empty string, another name)
ModelTypes == KnownModelTypes \cup {"SVD", "knn", "", "als"}

\* config["models"]: for each known model type no entry, an entry the class
\* accepts, or an entry with a keyword the class does not know
ModelParams == [KnownModelTypes -> {"absent", "valid", "invalid"}]

\* Recommender._build_model, lines 81-105: the model returned, or the
\* exception that the except clause logs and re-raises
build_model(model_params, model_type) ==
    LET params == IF model_type \in DOMAIN model_params
                     /\ model_params[model_type] # "absent"
                  THEN model_params[model_type] ELSE "{}"
        class == BuildModel(model_type)
    IN IF class = "ValueError" THEN [ret |-> None, exc |-> "ValueError"]
       ELSE IF class # "KNNBasic" /\ params = "invalid"
       THEN [ret |-> None, exc |-> "TypeError"]
       ELSE [ret |-> [class |-> class, params |-> params], exc |-> ""]

BuildInit ==
    /\ fn_pc = "call"
    /\ fn_name = "_build_model"
    /\ fn_args \in [model_params : ModelParams, model_type : ModelTypes]
    /\ fn_ret = None
    /\ fn_exc = ""

CallBuildModel ==
    FnCall("_build_model", build_model(fn_args.model_params, fn_args.model_type))

BuildNext == CallBuildModel


RatingCols == {"customer_id", "vendor_id", "rating"}

\* the rows of a table whose customer, vendor and category are the given ones
OrdersOfPair(data, c, v, category) ==
    {i \in 1..NRows(data) :
        /\ data.rows[i]["customer_id"] = Num(c)
        /\ data.rows[i]["vendor_id"] = Num(v)
        /\ data.rows[i]["vendor_category_en"] = category}

\* the non-missing values of column c of a table, ascending
KeysOf(t, c) ==
    SortedSeq({t.rows[i][c][2] : i \in {j \in 1..NRows(t) : ~IsNull(t.rows[j][c])}})

\* groupby(['customer_id', 'vendor_id'], as_index=False)['rating'].sum() over
\* the rows of the given category: one row per pair of keys that occurs, in
\* ascending order of the keys; a row with a missing key is in no group
GroupedRatings(data, category) ==
    LET cs == KeysOf(data, "customer_id")
        vs == KeysOf(data, "vendor_id")
        RowsOf(c) ==
            LET mine == SelectSeq(vs, LAMBDA v : OrdersOfPair(data, c, v, category) # {})
            IN [n \in 1..Len(mine) |->
                   [customer_id |-> Num(c), vendor_id |-> Num(mine[n]),
                    rating |-> Num(Cardinality(OrdersOfPair(data, c, mine[n], category)))]]
    IN Table(RatingCols, Concat([n \in 1..Len(cs) |-> RowsOf(cs[n])]))

\* _data_preprocess as it would be without the filter on the category: every
\* order of a pair counts
data_preprocess_unfiltered(data) ==
    IF ~(RecommenderCols \subseteq data.cols)
    THEN [ret |-> None, exc |-> "KeyError"]
    ELSE [ret |-> Table(RatingCols,
                        Concat([n \in 1..Len(KeysOf(data, "customer_id")) |->
                            LET c == KeysOf(data, "customer_id")[n]
                                Orders(v) == {i \in 1..NRows(data) :
                                                /\ data.rows[i]["customer_id"] = Num(c)
                                                /\ data.rows[i]["vendor_id"] = Num(v)}
                                mine == SelectSeq(KeysOf(data, "vendor_id"),
                                                  LAMBDA v : Orders(v) # {})
                            IN [k \in 1..Len(mine) |->
                                   [customer_id |-> Num(c), vendor_id |-> Num(mine[k]),
                                    rating |-> Num(Cardinality(Orders(mine[k])))]]])),
          exc |-> ""]

\* Recommender._data_preprocess, lines 58-79: the table returned, or the
\* exception that the except clause logs and re-raises
data_preprocess(data) ==
    IF ~(RecommenderCols \subseteq data.cols)
    THEN [ret |-> None, exc |-> "KeyError"]
    ELSE [ret |-> GroupedRatings(data, Restaurants), exc |-> ""]

\* vendor categories as they come in the table: restaurants, another
\* category, a missing one
Categories == {Restaurants, Str(<<"S">>), Null}

RatingInputCols == RecommenderCols \cup {"akeed_order_id"}

RatingInputRows ==
    {[customer_id |-> c, vendor_id |-> v, vendor_category_en |-> cat,
      akeed_order_id |-> Num(1)] :
        c \in {Num(id) : id \in CustomerIds} \cup {Null},
        v \in {Num(id) : id \in VendorIds} \cup {Null},
        cat \in Categories}

\* self.data: the complete tables, and the tables of one row that lack one
\* of the three columns read
RatingInputs ==
    LET full == {Table(RatingInputCols, rows) : rows \in SeqUpTo(RatingInputRows, MaxRows)}
    IN full \cup {DropColumns(t, {c}) : t \in {f \in full : NRows(f) = 1},
                                        c \in RecommenderCols}

PreprocessInit ==
    /\ fn_pc = "call"
    /\ fn_name = "_data_preprocess"
    /\ fn_args \in [data : RatingInputs]
    /\ fn_ret = None
    /\ fn_exc = ""

CallDataPreprocess == FnCall("_data_preprocess", data_preprocess(fn_args.data))

PreprocessNext == CallDataPreprocess


(***************************************************************************)
(* One call of upload_clustering_to_s3 (backend/src/upload_s3.py).  A      *)
(* prefix is a sequence of characters; a file name and a bucket are kept   *)
(* whole, so a key is the characters of the stripped prefix, "/" and the   *)
(* parts of the file name.                                                 *)
(***************************************************************************)
\* s3_prefix.rstrip('/') as it would be if it removed one slash only
RStripOne(str) ==
    IF str # <<>> /\ str[Len(str)] = "/" THEN SubSeq(str, 1, Len(str) - 1) ELSE str

RECURSIVE RStrip(_)
\* line 15: s3_prefix.rstrip('/')
RStrip(str) ==
    IF str # <<>> /\ str[Len(str)] = "/" THEN RStrip(SubSeq(str, 1, Len(str) - 1))
    ELSE str

\* line 14: filename or f"clustering_{timestamp}.csv"; None and the empty
\* string are both falsy
FileName(filename, timestamp) ==
    IF filename \in {None, ""} THEN <<"clustering_", timestamp, ".csv">>
    ELSE <<filename>>

\* line 15
UploadKey(s3_prefix, filename, timestamp) ==
    RStrip(s3_prefix) \o <<"/">> \o FileName(filename, timestamp)

\* line 34
S3Uri(bucket_name, s3_key) == <<"s3://", bucket_name, "/">> \o s3_key

\* lines 12-40 for the step that raises ("" if none): the put_object calls
\* made, the value returned and the exception re-raised by the except
upload_clustering_to_s3(a, timestamp, fails) ==
    LET s3_key == UploadKey(a.s3_prefix, a.filename, timestamp)
        put == [Bucket |-> a.bucket_name, Key |-> s3_key, ok |-> fails # "put_object"]
    IN IF fails \in {"to_csv", "client"}
       THEN [ret |-> [value |-> None, puts |-> <<>>, timestamp |-> timestamp],
             exc |-> "Exception"]
       ELSE IF fails = "put_object"
       THEN [ret |-> [value |-> None, puts |-> <<put>>, timestamp |-> timestamp],
             exc |-> "Exception"]
       ELSE [ret |-> [value |-> S3Uri(a.bucket_name, s3_key), puts |-> <<put>>,
                      timestamp |-> timestamp],
             exc |-> ""]

\* the prefixes a configuration may hold: none, without a trailing slash,
\* with one, with two, a slash only, and a nested one
Prefixes == {<<>>, <<"t">>, <<"t", "/">>, <<"t", "/", "/">>, <<"/">>,
             <<"a", "/", "b", "/">>}

UploadInit ==
    /\ fn_pc = "call"
    /\ fn_name = "upload_clustering_to_s3"
    /\ fn_args \in [bucket_name : {"bucket"}, s3_prefix : Prefixes,
                     filename : {None, "", "custom_file.csv"}]
    /\ fn_ret = None
    /\ fn_exc = ""

CallUpload ==
    \E timestamp \in {"20260101_000000", "20260101_000001"},
       fails \in {"", "to_csv", "client", "put_object"} :
        FnCall("upload_clustering_to_s3",
               upload_clustering_to_s3(fn_args, timestamp, fails))

UploadNext == CallUpload


(***************************************************************************)
(* The recommendation list of the web app (frontend/webapp.py, lines       *)
(* 73-89 and 151-172).                                                     *)
(***************************************************************************)
\* load_data_recom as it would be without the filter of line 89
load_data_unfiltered(csv) == csv

\* load_data_recom, lines 86-89: the rows of restaurant vendors, in order
load_data_recom(csv) ==
    Table(csv.cols, SelectSeq(csv.rows, LAMBDA r : r["vendor_category_en"] = Restaurants))

\* v in arr for a numpy array: some element compares equal; NaN never does
InArray(v, arr) == \E i \in 1..Len(arr) : arr[i] = v /\ ~IsNull(v)

RECURSIVE Unique(_)
\* series.unique(): the values in the order of their first appearance
Unique(values) ==
    IF values = <<>> THEN <<>>
    ELSE LET init == Unique(SubSeq(values, 1, Len(values) - 1))
             last == values[Len(values)]
         IN IF \E i \in 1..Len(init) : init[i] = last THEN init ELSE Append(init, last)

\* the column c of a table, as a sequence
ColumnOf(t, c) == [i \in 1..NRows(t) |-> t.rows[i][c]]

RECURSIVE SortedByEst(_)
\* line 164: sorted(predictions, key=lambda x: x.est, reverse=True), which
\* keeps predictions of equal est in their order
SortedByEst(predictions) ==
    IF predictions = <<>> THEN <<>>
    ELSE LET init == SortedByEst(SubSeq(predictions, 1, Len(predictions) - 1))
             last == predictions[Len(predictions)]
             before == SelectSeq(init, LAMBDA p : p.est >= last.est)
             after == SelectSeq(init, LAMBDA p : p.est < last.est)
         IN before \o <<last>> \o after

\* lines 151-172: the rows of rec_df for the scores est the model predicts
recommend(order_df, selected_customer, k, est) ==
    LET all_vendors == Unique(ColumnOf(order_df, "vendor_id"))
        customer_vendors ==
            Unique(ColumnOf(Table(order_df.cols,
                                  SelectSeq(order_df.rows,
                                      LAMBDA r : r["customer_id"] = selected_customer
                                                 /\ ~IsNull(selected_customer))),
                            "vendor_id"))
        vendor_to_predict == SelectSeq(all_vendors, LAMBDA v : ~InArray(v, customer_vendors))
        predictions == [i \in 1..Len(vendor_to_predict) |->
                           [iid |-> vendor_to_predict[i], est |-> est[vendor_to_predict[i]]]]
        sorted == SortedByEst(predictions)
    IN [ret |-> SubSeq(sorted, 1, IF k < Len(sorted) THEN k ELSE Len(sorted)),
        exc |-> ""]

WebVendors == {Num(v) : v \in 1..3}

\* the rows of the order history: customer 1 or 2 at restaurant 1, 2 or 3,
\* or at vendor 3 as a grocery
WebRows ==
    {[customer_id |-> Num(cust), vendor_id |-> v, vendor_category_en |-> Restaurants] :
        cust \in CustomerIds, v \in WebVendors}
    \cup {[customer_id |-> Num(cust), vendor_id |-> Num(3),
           vendor_category_en |-> Str(<<"G">>)] : cust \in CustomerIds}

\* the order histories: one row more than MaxRows, so that a customer with
\* an order leaves two vendors to rank
WebCsvs == {Table(RecommenderCols, rows) : rows \in SeqUpTo(WebRows, MaxRows + 1)}

\* line 149: the slider gives 1..20; past the number of vendors every value
\* gives the same list
TopNs == 1..(Cardinality(WebVendors) + 1)

\* lines 119-149: the order history is loaded, a customer of it is selected
\* (None when it has no row, kept as the missing value: it equals no
\* customer id) and the slider gives k
WebInit ==
    /\ fn_pc = "call"
    /\ fn_name = "run_app"
    /\ \E csv \in WebCsvs, k \in TopNs :
          LET customer_ids == Unique(ColumnOf(load_data_recom(csv), "customer_id"))
          IN \E selected \in IF customer_ids = <<>> THEN {Null}
                              ELSE {customer_ids[i] : i \in 1..Len(customer_ids)} :
                fn_args = [csv |-> csv, order_df |-> load_data_recom(csv),
                           selected_customer |-> selected, k |-> k]
    /\ fn_ret = None
    /\ fn_exc = ""

\* line 151: the button is pressed
CallRecommend ==
    \E est \in [WebVendors -> {1, 2}] :
        FnCall("run_app", recommend(fn_args.order_df, fn_args.selected_customer,
                                    fn_args.k, est))

WebNext == CallRecommend


(***************************************************************************)
(* One call of FOOD.run (backend/src/food.py, lines 103-112).              *)
(***************************************************************************)
\* the order rows handed to FOOD: customer 1 or 2, a vendor tagged I, C or
\* both
FoodRows ==
    {[customer_id |-> Num(cust), vendor_tag_name |-> Str(tags)] :
        cust \in CustomerIds, tags \in {<<"I">>, <<"C">>, <<"I", ",", "C">>}}

FoodInputs ==
    {Table({"customer_id", "vendor_tag_name"}, rows) :
        rows \in SeqUpTo(FoodRows, MaxRows) \ {<<>>}}

\* food.food_mapping: FoodMapping, and one with a category whose only tag
\* no vendor carries
FoodMappings == {FoodMapping, [Italian |-> {"I"}, Asian |-> {"C"}, Mexican |-> {"P"}]}

\* lines 63-67: the tags of the mapping that are not columns of food_df,
\* for which the warning is logged
MissingCols(food_df, food_mapping) ==
    (UNION {food_mapping[cat] : cat \in DOMAIN food_mapping}) \ food_df.cols

\* FOOD.run, lines 103-112, for the labels K-Means gives: the returned
\* food_labeled, self.aggregated_df as cluster leaves it, the tags warned
\* about, and the exception
food_run(df, cfg, labels) ==
    LET pre == FoodPreprocess(df, cfg.columns)
        agg == FoodBeforeClustering(df, cfg)
    IN IF agg.exc # ""
       THEN [ret |-> [food_labeled |-> NoTable, aggregated_df |-> agg.aggregated_df,
                      warned |-> IF pre.exc = ""
                                 THEN MissingCols(pre.food_df, cfg.food_mapping)
                                 ELSE {}],
             exc |-> agg.exc]
       ELSE [ret |-> [food_labeled |-> FoodCluster(agg.aggregated_df, labels,
                                                   cfg.cluster_mapping),
                      aggregated_df |->
                          WithColumn(
                              WithColumn(agg.aggregated_df, "food_cluster",
                                  [i \in 1..NRows(agg.aggregated_df) |-> Num(labels[i])]),
                              "Segment",
                              [i \in 1..NRows(agg.aggregated_df) |->
                                  MapCluster(cfg.cluster_mapping, labels[i])]),
                      warned |-> MissingCols(pre.food_df, cfg.food_mapping)],
             exc |-> ""]

FoodInit ==
    /\ fn_pc = "call"
    /\ fn_name = "FOOD.run"
    /\ fn_args \in [df : FoodInputs,
                     cfg : [columns : FoodColumns, food_mapping : FoodMappings,
                            cluster_mapping : {FoodClusterMapping}, num_clusters : {2}]]
    /\ fn_ret = None
    /\ fn_exc = ""

CallFoodRun ==
    \E labels \in Labelings(NRows(fn_args.df), fn_args.cfg.num_clusters) :
        FnCall("FOOD.run", food_run(fn_args.df, fn_args.cfg, labels))

FoodNext == CallFoodRun


(***************************************************************************)
(* One RFM object, from its construction to the end of RFM.run.            *)
(***************************************************************************)
RfmIdle ==
    /\ rfm_pc = "idle"
    /\ rfm_input = NoTable
    /\ rfm_cfg = EmptyDict
    /\ rfm_self = EmptyDict
    /\ rfm_labels = <<>>
    /\ rfm_exc = ""

\* the order rows handed to RFM: an order of customer 1, 2 or of no
\* customer, placed on day 5 or day 40, with or without an order id
RfmRows ==
    {[customer_id |-> cust, created_at |-> Str(created),
      akeed_order_id |-> order, grand_total |-> Num(total)] :
        cust \in {Num(id) : id \in CustomerIds} \cup {Null},
        created \in {<<"5">>, <<"4", "0">>},
        order \in {Num(1), Null},
        total \in {10, 20}}

RfmInputs == {Table(RfmCols, rows) : rows \in SeqUpTo(RfmRows, MaxRows) \ {<<>>}}

\* config["rfm"]
RfmConfigs ==
    [snapshot_date : {90}, n_clusters : {2}, cluster_mapping : RfmMappings]

\* RFM.__init__, lines 40-53: self.df is a copy of the table passed in
RfmInit ==
    /\ rfm_pc = "constructed"
    /\ rfm_input \in RfmInputs
    /\ rfm_cfg \in RfmConfigs
    /\ rfm_self = [df |-> rfm_input, rfm_df |-> NoTable, rfm_labeled |-> NoTable]
    /\ rfm_labels = <<>>
    /\ rfm_exc = ""

\* RFM.run, line 152: self.preprocess()
RfmCallPreprocess ==
    /\ UNCHANGED notRfmVars
    /\ rfm_pc = "constructed"
    /\ LET pre == RfmPreprocess(rfm_self.df, rfm_cfg.snapshot_date)
       IN /\ rfm_self' = [rfm_self EXCEPT !.df = pre.df, !.rfm_df = pre.rfm_df]
          /\ rfm_exc' = pre.exc
          /\ rfm_pc' = IF pre.exc = "" THEN "preprocessed" ELSE "failed"
    /\ UNCHANGED <<rfm_input, rfm_cfg, rfm_labels>>

\* RFM.run, line 153: self._train_model(); KMeans refuses fewer samples
\* than clusters, and otherwise gives every customer some cluster id
RfmCallTrain ==
    /\ UNCHANGED notRfmVars
    /\ rfm_pc = "preprocessed"
    /\ IF NRows(rfm_self.rfm_df) < rfm_cfg.n_clusters
       THEN /\ rfm_exc' = "ValueError"
            /\ rfm_pc' = "failed"
            /\ UNCHANGED <<rfm_self, rfm_labels>>
       ELSE /\ \E labels \in Labelings(NRows(rfm_self.rfm_df), rfm_cfg.n_clusters) :
                 /\ rfm_labels' = labels
                 /\ rfm_self' = [rfm_self EXCEPT !.rfm_labeled =
                        RfmTrain(rfm_self.rfm_df, labels, rfm_cfg.cluster_mapping)]
            /\ rfm_pc' = "trained"
            /\ UNCHANGED rfm_exc
    /\ UNCHANGED <<rfm_input, rfm_cfg>>

\* RFM.run, lines 154-155: self.clv_calculation(); return self.rfm_labeled
RfmCallClv ==
    /\ UNCHANGED notRfmVars
    /\ rfm_pc = "trained"
    /\ rfm_self' = [rfm_self EXCEPT !.rfm_labeled =
           RfmClv(rfm_self.df, rfm_self.rfm_labeled, rfm_cfg.cluster_mapping)]
    /\ rfm_pc' = "done"
    /\ UNCHANGED <<rfm_input, rfm_cfg, rfm_labels, rfm_exc>>

RfmNext == RfmCallPreprocess \/ RfmCallTrain \/ RfmCallClv


(***************************************************************************)
(* The table objects of step 3 and step 4 of the pipeline script           *)
(* (backend/pipeline.py, lines 76-100).  A table is an object of the heap; *)
(* a variable or an attribute refers to one by its index.  An assignment   *)
(* to a column of a table changes the object, and so is seen through every *)
(* reference to it; a copy or a selection of columns is a new object.      *)
(***************************************************************************)
HandIdle ==
    /\ hd_pc = "idle"
    /\ hd_heap = <<>>
    /\ hd_df = 0
    /\ hd_acquired = NoTable
    /\ hd_self = 0
    /\ hd_exc = ""

\* the joined rows the database may hold: customer 1 or 2, ordered on day 5
\* or day 40, from a restaurant or a grocery, with tag I or C
HandRows ==
    {JoinedRow(cust, created, 1, 10, 1, category, tags) :
        cust \in CustomerIds, created \in {<<"5">>, <<"4", "0">>},
        category \in {<<"R">>, <<"G">>}, tags \in {<<"I">>, <<"C">>}}

\* the tables acquire_data_rds may return
HandTables ==
    PipelineTables \cup
    {Table(JoinedCols, rows) : rows \in SeqUpTo(HandRows, MaxRows) \ {<<>>}}

\* line 58: df = ad.acquire_data_rds(config)
HandInit ==
    /\ hd_pc = "rfm_init"
    /\ hd_acquired \in HandTables
    /\ hd_heap = <<hd_acquired>>
    /\ hd_df = 1
    /\ hd_self = 0
    /\ hd_exc = ""

\* a new object with the contents t: the heap and the reference to it
NewObject(heap, t) == [heap |-> Append(heap, t), ref |-> Len(heap) + 1]

\* an exception leaves the script at step 3
HandTerminate(exc) ==
    /\ hd_exc' = exc
    /\ hd_pc' = "terminated"

\* pipeline.py line 76, rfm.py line 49: self.df = df.copy()
HandRfmInit ==
    /\ UNCHANGED notHandVars
    /\ hd_pc = "rfm_init"
    /\ LET new == NewObject(hd_heap, hd_heap[hd_df])
       IN hd_heap' = new.heap /\ hd_self' = new.ref
    /\ hd_pc' = "rfm_run"
    /\ UNCHANGED <<hd_df, hd_acquired, hd_exc>>

\* pipeline.py line 77, rfm.py lines 55-73 and 149-158: line 58 makes
\* self.df a new object, line 59 writes order_date into that object;
\* _train_model and clv_calculation work on self.rfm_df and on a copy of
\* self.df
HandRfmRun ==
    /\ UNCHANGED notHandVars
    /\ hd_pc = "rfm_run"
    /\ LET pre == RfmBeforeTraining(hd_heap[hd_self],
                                    [snapshot_date |-> 90, n_clusters |-> 2])
           new == NewObject(hd_heap, Project(hd_heap[hd_self], RfmCols))
       IN /\ IF pre.exc = "KeyError"
             THEN UNCHANGED <<hd_heap, hd_self>>
             ELSE /\ hd_heap' = [new.heap EXCEPT ![new.ref] = pre.df]
                  /\ hd_self' = new.ref
          /\ IF pre.exc # ""
             THEN HandTerminate(pre.exc)
             ELSE hd_pc' = "food_init" /\ UNCHANGED hd_exc
    /\ UNCHANGED <<hd_df, hd_acquired>>

\* pipeline.py line 78, food.py line 46: self.df = df.copy()
HandFoodInit ==
    /\ UNCHANGED notHandVars
    /\ hd_pc = "food_init"
    /\ LET new == NewObject(hd_heap, hd_heap[hd_df])
       IN hd_heap' = new.heap /\ hd_self' = new.ref
    /\ hd_pc' = "food_run"
    /\ UNCHANGED <<hd_df, hd_acquired, hd_exc>>

\* pipeline.py line 79, food.py lines 50-112: preprocess reads self.df and
\* builds new tables (get_dummies, drop, concat); no later method touches
\* self.df
HandFoodRun ==
    /\ UNCHANGED notHandVars
    /\ hd_pc = "food_run"
    /\ LET pre == FoodPreprocess(hd_heap[hd_self], {"customer_id", "I", "C"})
       IN IF pre.exc # ""
          THEN HandTerminate(pre.exc)
          ELSE hd_pc' = "rec_init" /\ UNCHANGED hd_exc
    /\ UNCHANGED <<hd_heap, hd_df, hd_acquired, hd_self>>

\* recommender.py lines 68-69 as they would be if they worked on self.data
\* itself: the rating column is written into the table of the script
HandRecInitInPlace ==
    /\ UNCHANGED notHandVars
    /\ hd_pc = "rec_init"
    /\ hd_self' = hd_df
    /\ IF ~(RecommenderCols \subseteq hd_heap[hd_df].cols)
       THEN hd_exc' = "KeyError" /\ hd_pc' = "done" /\ UNCHANGED hd_heap
       ELSE /\ hd_heap' = [hd_heap EXCEPT ![hd_df] =
                   WithColumn(hd_heap[hd_df], "rating",
                              [i \in 1..NRows(hd_heap[hd_df]) |-> Num(1)])]
            /\ hd_pc' = "rec_upload"
            /\ UNCHANGED hd_exc
    /\ UNCHANGED <<hd_df, hd_acquired>>

\* pipeline.py line 99, recommender.py lines 49-79: self.data = df is the
\* object of the script; line 68 selects three columns into a copy, line 69
\* writes the rating column into that copy; the KeyError of a missing
\* column is caught by the script (lines 112-114)
HandRecInit ==
    /\ UNCHANGED notHandVars
    /\ hd_pc = "rec_init"
    /\ hd_self' = hd_df
    /\ IF ~(RecommenderCols \subseteq hd_heap[hd_df].cols)
       THEN hd_exc' = "KeyError" /\ hd_pc' = "done" /\ UNCHANGED hd_heap
       ELSE /\ LET new == NewObject(hd_heap, Project(hd_heap[hd_df], RecommenderCols))
               IN hd_heap' = [new.heap EXCEPT ![new.ref] =
                      WithColumn(new.heap[new.ref], "rating",
                                 [i \in 1..NRows(new.heap[new.ref]) |-> Num(1)])]
            /\ hd_pc' = "rec_upload"
            /\ UNCHANGED hd_exc
    /\ UNCHANGED <<hd_df, hd_acquired>>

\* pipeline.py line 100, recommender.py lines 107-195: upload_models_to_s3
\* reads self.data_frame only; whether it returns or raises, the script ends
HandRecUpload ==
    /\ UNCHANGED notHandVars
    /\ hd_pc = "rec_upload"
    /\ \E exc \in {"", "Exception"} : hd_exc' = exc
    /\ hd_pc' = "done"
    /\ UNCHANGED <<hd_heap, hd_df, hd_acquired, hd_self>>

HandNext ==
    \/ HandRfmInit
    \/ HandRfmRun
    \/ HandFoodInit
    \/ HandFoodRun
    \/ HandRecInit
    \/ HandRecUpload

(***************************************************************************)
(* Specifications: one per program part, the other parts idle.             *)
(***************************************************************************)
RecIdle ==
    /\ aws_config = [keys |-> {}, upload |-> FALSE]
    /\ rec_pc = "idle"
    /\ model_idx = 1
    /\ upload_status = EmptyDict
    /\ s3_clients = 0
    /\ upload_calls = <<>>
    /\ trained = <<>>
    /\ tmp_files = {}
    /\ tmp_name = ""
    /\ stdout = "original"
    /\ rec_ret = EmptyDict
    /\ rec_failed_at = ""

InitRec == RecInit /\ CleanIdle /\ MergeIdle /\ LamIdle /\ PipeIdle /\ FnIdle /\ RfmIdle /\ HandIdle

SpecRec == InitRec /\ [][RecNext]_vars

InitClean == CleanInit /\ RecIdle /\ MergeIdle /\ LamIdle /\ PipeIdle /\ FnIdle /\ RfmIdle /\ HandIdle

SpecClean == InitClean /\ [][CleanNext]_vars

InitMerge == MergeInit /\ RecIdle /\ CleanIdle /\ LamIdle /\ PipeIdle /\ FnIdle /\ RfmIdle /\ HandIdle

SpecMerge == InitMerge /\ [][MergeNext]_vars

InitLambda == LamInit /\ RecIdle /\ CleanIdle /\ MergeIdle /\ PipeIdle /\ FnIdle /\ RfmIdle /\ HandIdle

SpecLambda == InitLambda /\ [][LamNext]_vars

\* the recommender of the script: constructed in step 4, from config["aws_rs"]
RecWaiting ==
    /\ aws_config \in PipelineAwsConfigs
    /\ rec_pc = "idle"
    /\ model_idx = 1
    /\ upload_status = EmptyDict
    /\ s3_clients = 0
    /\ upload_calls = <<>>
    /\ trained = <<>>
    /\ tmp_files = {}
    /\ tmp_name = ""
    /\ stdout = "original"
    /\ rec_ret = EmptyDict
    /\ rec_failed_at = ""

InitPipeline == PipeInit /\ RecWaiting /\ CleanIdle /\ MergeIdle /\ LamIdle /\ FnIdle /\ RfmIdle /\ HandIdle

SpecPipeline == InitPipeline /\ [][PipeNext]_vars

InitBuild ==
    BuildInit /\ RecIdle /\ CleanIdle /\ MergeIdle /\ LamIdle /\ PipeIdle /\ RfmIdle /\ HandIdle

SpecBuild == InitBuild /\ [][BuildNext]_vars

InitPreprocess ==
    PreprocessInit /\ RecIdle /\ CleanIdle /\ MergeIdle /\ LamIdle /\ PipeIdle /\ RfmIdle /\ HandIdle

SpecPreprocess == InitPreprocess /\ [][PreprocessNext]_vars

InitUpload ==
    UploadInit /\ RecIdle /\ CleanIdle /\ MergeIdle /\ LamIdle /\ PipeIdle /\ RfmIdle /\ HandIdle

SpecUpload == InitUpload /\ [][UploadNext]_vars

InitWeb ==
    WebInit /\ RecIdle /\ CleanIdle /\ MergeIdle /\ LamIdle /\ PipeIdle /\ RfmIdle /\ HandIdle

SpecWeb == InitWeb /\ [][WebNext]_vars

InitFood ==
    FoodInit /\ RecIdle /\ CleanIdle /\ MergeIdle /\ LamIdle /\ PipeIdle /\ RfmIdle /\ HandIdle

SpecFood == InitFood /\ [][FoodNext]_vars

InitRfm ==
    /\ RecIdle /\ CleanIdle /\ MergeIdle /\ LamIdle /\ PipeIdle /\ FnIdle /\ RfmInit /\ HandIdle

SpecRfm == InitRfm /\ [][RfmNext]_vars

InitHand ==
    /\ RecIdle /\ CleanIdle /\ MergeIdle /\ LamIdle /\ PipeIdle /\ FnIdle /\ RfmIdle
    /\ HandInit

SpecHand == InitHand /\ [][HandNext]_vars


(***************************************************************************)
(* Claims about Recommender.upload_models_to_s3, checked under SpecRec.    *)
(***************************************************************************)

\* C1: with upload enabled, a failed S3 upload of one model never leaves the
\* method as an exception: False is recorded for that model, every model of
\* the menu is attempted exactly once and in order, the status entry of each
\* attempted model is that model's own upload outcome, and a return with
\* upload enabled has trained and attempted all four models.
C1_UploadFailureIsolated ==
    /\ rec_failed_at # "upload"
    /\ \A i \in 1..Len(upload_calls) :
         /\ upload_calls[i].model = ModelMenu[i]
         /\ upload_calls[i].model \in DOMAIN upload_status
         /\ upload_status[upload_calls[i].model] = upload_calls[i].ok
    /\ DOMAIN upload_status = {upload_calls[i].model : i \in 1..Len(upload_calls)}
    /\ (rec_pc = "returned" /\ s3_clients > 0) =>
         /\ trained = ModelMenu
         /\ Len(upload_calls) = Len(ModelMenu)
         /\ rec_ret = upload_status

\* C1 witness: the method returned although the upload of an earlier model
\* failed, and a later model was trained and uploaded successfully.
C1_Witness ==
    /\ rec_pc = "returned"
    /\ trained = ModelMenu
    /\ \E i, j \in 1..Len(upload_calls) :
         /\ i < j
         /\ ~upload_calls[i].ok
         /\ upload_calls[j].ok
         /\ rec_ret[ModelMenu[i]] = FALSE
         /\ rec_ret[ModelMenu[j]] = TRUE

\* C10: when the upload flag is false or absent, no S3 client is created, no
\* upload is performed, nothing is raised and the value returned is
\* {upload_enabled: False}.
C10_DisabledNoNetwork ==
    ("upload" \notin aws_config.keys \/ ~aws_config.upload) =>
        /\ s3_clients = 0
        /\ upload_calls = <<>>
        /\ rec_pc \in {"check_flag", "returned"}
        /\ (rec_pc = "returned" => rec_ret = SkippedResult)

\* C10 witness: a configuration without the upload key (and without region,
\* bucket and prefix) has returned the skipped result.
C10_Witness ==
    /\ aws_config.keys = {}
    /\ rec_pc = "returned"
    /\ rec_ret = SkippedResult
    /\ s3_clients = 0

(***************************************************************************)
(* Claims about lambda_handler, checked under SpecLambda.                  *)
(***************************************************************************)

\* C2: lambda_handler never raises: a failure of a read, a cleaner, the merge
\* or the upload leads to the except clause and from there to a returned
\* result with statusCode 500 and the message of the error; statusCode 200 is
\* returned only when every step, the upload of the joined table included,
\* completed.
C2_HandlerNeverRaises ==
    /\ lam_pc # "raised"
    /\ lam_exc # "" => lam_pc \in {"except", "returned"}
    /\ lam_pc = "returned" =>
         /\ lam_result.statusCode \in {200, 500}
         /\ lam_exc # "" =>
              /\ lam_result.statusCode = 500
              /\ lam_result.message = lam_exc
         /\ lam_result.statusCode = 200 =>
              /\ lam_exc = ""
              /\ lam_trace = StepOrder
              /\ s3_puts = <<[key |-> output_key, body |-> final_data]>>

\* C2 witness: the merge raised (the orders file has no vendor_id column) and
\* the handler returned statusCode 500 with the message of that error.
C2_Witness ==
    /\ lam_pc = "returned"
    /\ lam_failed_step = "merge"
    /\ lam_result = [statusCode |-> 500, message |-> lam_exc]
    /\ lam_exc # ""

\* C9: the steps of the handler complete in program order; the joined table
\* is written, once and to the output key, only after the four reads, the
\* four cleaners and the merge completed; after an exception no later step
\* completes, nothing is written and the run ends with statusCode 500.
C9_WriteOnlyAfterAllSteps ==
    /\ Len(lam_trace) <= Len(StepOrder)
    /\ \A i \in 1..Len(lam_trace) : lam_trace[i] = StepOrder[i]
    /\ s3_puts # <<>> =>
         /\ lam_trace = StepOrder
         /\ s3_puts = <<[key |-> output_key, body |-> final_data]>>
         /\ lam_exc = ""
    /\ lam_exc # "" =>
         /\ lam_pc \in {"except", "returned"}
         /\ Len(lam_trace) < Len(StepOrder)
         /\ StepOrder[Len(lam_trace) + 1] = lam_failed_step
         /\ s3_puts = <<>>
         /\ lam_pc = "returned" => lam_result.statusCode = 500

\* C9 witness: the locations file has no latitude column, clean_locations
\* raised KeyError, neither clean_orders nor any later step ran, nothing was
\* written and the handler returned statusCode 500.
C9_Witness ==
    /\ lam_pc = "returned"
    /\ "latitude" \notin locations.cols
    /\ lam_failed_step = "clean_locations"
    /\ lam_exc = "KeyError"
    /\ lam_trace = SubSeq(StepOrder, 1, 5)
    /\ cleaned_orders = NoTable
    /\ s3_puts = <<>>
    /\ lam_result.statusCode = 500

(***************************************************************************)
(* Claim about merge_datasets, checked under SpecMerge.                    *)
(***************************************************************************)

\* C3: for any cleaned customers, locations, orders and vendors tables, a
\* repeated vendor id or a repeated (customer id, location number) pair
\* included, merge_datasets returns exactly as many rows as the orders table
\* has.
C3_RowCountEqualsOrders ==
    (mg_pc = "done" /\ mg_exc = "") => NRows(mg_ret) = NRows(mg_orders)

(***************************************************************************)
(* Claim about the table cleaners, checked under SpecClean.                *)
(***************************************************************************)

\* C7: after a call of clean_customers, clean_locations, clean_orders or
\* clean_vendors the caller's table object has the columns and the cell
\* values it had before the call.
C7_CallerTableUnchanged ==
    cl_pc = "done" => cl_arg = cl_in

(***************************************************************************)
(* Claims about the segmentations and the pipeline script, checked under   *)
(* SpecPipeline.                                                           *)
(***************************************************************************)

\* the number of rows of table t whose customer_id is k
RowsOfCustomer(t, k) ==
    Cardinality({i \in 1..NRows(t) : t.rows[i]["customer_id"] = Num(k)})

\* whether table t has exactly one row for each customer id of table src and
\* no other row
OneRowPerCustomerOf(t, src) ==
    /\ NRows(t) = Len(CustomersOf(src))
    /\ \A n \in 1..Len(CustomersOf(src)) : RowsOfCustomer(t, CustomersOf(src)[n]) = 1

\* C4: FOOD.run returns exactly one row per distinct customer id of its
\* input, also when a customer has several order rows.
C4_FoodOneRowPerCustomer ==
    food_result # NoTable => OneRowPerCustomerOf(food_result, pipe_df)

\* C5: every segmentation table the script publishes has exactly one row for
\* each customer id of the RFM result.
C5_PublishedOneRowPerCustomer ==
    \A i \in 1..Len(published) : OneRowPerCustomerOf(published[i], rfm_result)

\* C6: RFM.run returns exactly one row per distinct customer id of its input,
\* for any configured cluster mapping, one that gives two cluster ids the same
\* segment name included.
C6_RfmOneRowPerCustomer ==
    rfm_result # NoTable => OneRowPerCustomerOf(rfm_result, pipe_df)

\* the steps of the script before the recommender step
EarlySteps == {"acquire", "eda", "rfm", "food", "publish"}

C11_UnknownTypeRaises ==
    fn_pc = "done" =>
        /\ fn_args.model_type \notin KnownModelTypes =>
             (fn_exc = "ValueError" /\ fn_ret = None)
        /\ fn_exc = "ValueError" => fn_args.model_type \notin KnownModelTypes

\* C11 witness: the type "SVD", which differs from svd only in case, was
\* asked for and the call raised ValueError.
C11_Witness ==
    /\ fn_pc = "done"
    /\ fn_name = "_build_model"
    /\ fn_args.model_type = "SVD"
    /\ fn_exc = "ValueError"
    /\ fn_ret = None

\* C12: when _data_preprocess returns, its table has the columns customer_id,
\* vendor_id and rating; for every customer and vendor it has exactly one row
\* when the pair has an order of category Restaurants, with the number of
\* those orders as rating, and no row otherwise; it has no other row.
\* Checked under SpecPreprocess.
C12_OneRowPerRestaurantPair ==
    (fn_pc = "done" /\ fn_exc = "") =>
        /\ fn_ret.cols = RatingCols
        /\ \A c \in CustomerIds, v \in VendorIds :
             LET n == Cardinality(OrdersOfPair(fn_args.data, c, v, Restaurants))
                 rows == {i \in 1..NRows(fn_ret) :
                            /\ fn_ret.rows[i]["customer_id"] = Num(c)
                            /\ fn_ret.rows[i]["vendor_id"] = Num(v)}
             IN /\ Cardinality(rows) = (IF n > 0 THEN 1 ELSE 0)
                /\ \A i \in rows : fn_ret.rows[i]["rating"] = Num(n)
        /\ \A i \in 1..NRows(fn_ret) :
             /\ fn_ret.rows[i]["customer_id"] \in {Num(c) : c \in CustomerIds}
             /\ fn_ret.rows[i]["vendor_id"] \in {Num(v) : v \in VendorIds}

\* C12 witness: customer 1 ordered twice from vendor 2, once from a
\* restaurant and once from a vendor of another category; the table returned
\* is the single row (1, 2, 1).
C12_Witness ==
    /\ fn_pc = "done"
    /\ fn_name = "_data_preprocess"
    /\ fn_exc = ""
    /\ NRows(fn_args.data) = 2
    /\ OrdersOfPair(fn_args.data, 1, 2, Restaurants) = {1}
    /\ OrdersOfPair(fn_args.data, 1, 2, Str(<<"S">>)) = {2}
    /\ fn_ret.rows = <<[customer_id |-> Num(1), vendor_id |-> Num(2), rating |-> Num(1)]>>

(***************************************************************************)
(* More claims about merge_datasets, checked under SpecMerge.              *)
(***************************************************************************)

\* whether no two rows of table t agree on all the columns keys
UniqueOn(t, keys) ==
    \A i, j \in 1..NRows(t) :
        (\A k \in keys : t.rows[i][k] = t.rows[j][k]) => i = j

\* the cells an output row of merge_datasets took from its order row: the
\* orders' LOCATION_TYPE is suffixed _x, the locations' one _y
OrderPart(r) ==
    [c \in mg_orders.cols |-> IF c = "LOCATION_TYPE" THEN r["LOCATION_TYPE_x"] ELSE r[c]]

\* whether a row of table t agrees with order row o on all the columns keys
HasMatch(t, o, keys) == \E i \in 1..NRows(t) : \A k \in keys : t.rows[i][k] = o[k]

\* C13: when customer_id is unique in the cleaned customers,
\* (customer_id, LOCATION_NUMBER) in the cleaned locations and vendor_id in
\* the cleaned vendors, merge_datasets returns exactly one row per order row,
\* in the order of the orders table, each carrying its order's cells.
C13_UniqueKeysKeepRowCount ==
    (/\ mg_pc = "done"
     /\ UniqueOn(mg_customers, {"customer_id"})
     /\ UniqueOn(mg_locations, {"customer_id", "LOCATION_NUMBER"})
     /\ UniqueOn(mg_vendors, {"vendor_id"})) =>
        /\ mg_exc = ""
        /\ NRows(mg_ret) = NRows(mg_orders)
        /\ \A i \in 1..NRows(mg_orders) : OrderPart(mg_ret.rows[i]) = mg_orders.rows[i]

\* C13 witness: two orders, a customers table, a locations table and a
\* vendors table of two rows each with unique keys, and two rows returned.
C13_Witness ==
    /\ mg_pc = "done"
    /\ NRows(mg_orders) = 2
    /\ NRows(mg_customers) = 2
    /\ NRows(mg_locations) = 2
    /\ NRows(mg_vendors) = 2
    /\ UniqueOn(mg_locations, {"customer_id", "LOCATION_NUMBER"})
    /\ UniqueOn(mg_vendors, {"vendor_id"})
    /\ NRows(mg_ret) = 2

\* C14: merge_datasets does not fail, and for every order row that matches
\* no cleaned location on (customer_id, LOCATION_NUMBER) the joined table
\* has a row with that order's cells, and every such row has missing
\* latitude, longitude and location type; likewise the customer's fields
\* are missing for an order whose customer_id matches no customer, and the
\* vendor's fields for an order whose vendor_id matches no vendor.
C14_UnmatchedJoinsGiveNulls ==
    mg_pc = "done" =>
        /\ mg_exc = ""
        /\ \A i \in 1..NRows(mg_orders) :
             LET o == mg_orders.rows[i]
                 mine == {j \in 1..NRows(mg_ret) : OrderPart(mg_ret.rows[j]) = o}
                 NullIn(cols) == \A j \in mine : \A c \in cols : IsNull(mg_ret.rows[j][c])
             IN /\ mine # {}
                /\ ~HasMatch(mg_locations, o, {"customer_id", "LOCATION_NUMBER"}) =>
                     NullIn({"latitude", "longitude", "LOCATION_TYPE_y"})
                /\ ~HasMatch(mg_customers, o, {"customer_id"}) =>
                     NullIn(mg_customers.cols \ {"customer_id"})
                /\ ~HasMatch(mg_vendors, o, {"vendor_id"}) =>
                     NullIn(CleanVendorCols \ {"vendor_id"})

\* C14 witness: an order of customer 2 at location 0, whose only location
\* was dropped by clean_locations for its missing latitude, so that the
\* cleaned locations hold only customer 1; the joined table has the order's
\* row with a missing latitude.
C14_Witness ==
    /\ mg_pc = "done"
    /\ mg_exc = ""
    /\ NRows(mg_locations) > 0
    /\ \E i \in 1..NRows(mg_orders) :
         /\ mg_orders.rows[i]["customer_id"] = Num(2)
         /\ ~HasMatch(mg_locations, mg_orders.rows[i], {"customer_id", "LOCATION_NUMBER"})
         /\ \E j \in 1..NRows(mg_ret) :
              /\ OrderPart(mg_ret.rows[j]) = mg_orders.rows[i]
              /\ IsNull(mg_ret.rows[j]["latitude"])

(***************************************************************************)
(* More claims about the cleaners, checked under SpecClean.                *)
(***************************************************************************)

\* the customer ids of the table passed to clean_customers
InputCustomerIds ==
    {cl_in.rows[i]["akeed_customer_id"][2] :
        i \in {j \in 1..NRows(cl_in) : ~IsNull(cl_in.rows[j]["akeed_customer_id"])}}

\* whether row i of the table passed in is the first row of its customer
\* that has the latest 'updated_at' of that customer
IsLatestFirst(i) ==
    LET Upd(j) == ToDatetime(cl_in.rows[j]["updated_at"])
        Same(j) == cl_in.rows[j]["akeed_customer_id"] = cl_in.rows[i]["akeed_customer_id"]
    IN /\ ~IsNull(Upd(i))
       /\ \A j \in 1..NRows(cl_in) :
            (Same(j) /\ ~IsNull(Upd(j))) =>
                /\ Upd(j)[2] <= Upd(i)[2]
                /\ j < i => Upd(j)[2] < Upd(i)[2]

\* the row of the table passed in that the output row of customer k must
\* come from
KeptRow(k) ==
    cl_in.rows[CHOOSE i \in 1..NRows(cl_in) :
                  cl_in.rows[i]["akeed_customer_id"] = Num(k) /\ IsLatestFirst(i)]

\* the output row of customer k
OutputRow(k) ==
    cl_ret.rows[CHOOSE i \in 1..NRows(cl_ret) : cl_ret.rows[i]["customer_id"] = Num(k)]

CustomersCleaned == cl_func = "clean_customers" /\ cl_pc = "done" /\ cl_exc = ""

\* C15: when clean_customers returns, no two output rows have the same
\* customer_id, the output has a row for exactly the customer ids of the
\* input, and the row of each id comes from the first input row of that id
\* that has the maximum updated_at of the id: it carries that row's gender
\* and birth year (cleaned).
C15_LatestRowPerCustomer ==
    CustomersCleaned =>
        /\ \A i, j \in 1..NRows(cl_ret) :
             cl_ret.rows[i]["customer_id"] = cl_ret.rows[j]["customer_id"] => i = j
        /\ {cl_ret.rows[i]["customer_id"] : i \in 1..NRows(cl_ret)}
              = {Num(k) : k \in InputCustomerIds}
        /\ \A k \in InputCustomerIds :
             /\ \E i \in 1..NRows(cl_in) :
                  cl_in.rows[i]["akeed_customer_id"] = Num(k) /\ IsLatestFirst(i)
             /\ OutputRow(k)["gender"] = CleanGender(KeptRow(k)["gender"])
             /\ OutputRow(k)["dob"] = CleanDob(KeptRow(k)["dob"])

\* C15 witness: two rows of customer 1 with the same updated_at, the first
\* a male born in 1990, the second a female; the output is one row, the
\* male one.
C15_Witness ==
    /\ CustomersCleaned
    /\ NRows(cl_in) = 2
    /\ cl_in.rows[1]["akeed_customer_id"] = Num(1)
    /\ cl_in.rows[2]["akeed_customer_id"] = Num(1)
    /\ cl_in.rows[1]["updated_at"] = cl_in.rows[2]["updated_at"]
    /\ cl_in.rows[1]["dob"] = Num(1990)
    /\ cl_in.rows[2]["gender"] = Str(<<"F", "E", "M", "A", "L", "E">>)
    /\ NRows(cl_ret) = 1
    /\ cl_ret.rows[1]["gender"] = Male
    /\ cl_ret.rows[1]["dob"] = Num(1990)

\* the source gender, trimmed of surrounding blanks and put in title case
\* ("" for a missing one)
Normalised(c) == IF c[1] = "str" THEN Title(Strip(c[2])) ELSE <<>>

\* C16: when clean_customers returns, every gender of the output is Male,
\* Female or Unknown; it is Male exactly when the gender of the source row,
\* trimmed and in title case, is "Male", Female exactly when it is "Female",
\* and Unknown otherwise, a missing gender included.
C16_GenderNormalised ==
    CustomersCleaned =>
        \A k \in InputCustomerIds :
            LET g == OutputRow(k)["gender"]
                src == Normalised(KeptRow(k)["gender"])
            IN /\ g \in {Male, Female, Unknown}
               /\ g = Male <=> src = <<"M", "a", "l", "e">>
               /\ g = Female <=> src = <<"F", "e", "m", "a", "l", "e">>
               /\ IsNull(KeptRow(k)["gender"]) => g = Unknown

\* C16 witness: one customer whose gender is " male" and one whose gender
\* is missing; the output has Male for the first and Unknown for the second.
C16_Witness ==
    /\ CustomersCleaned
    /\ NRows(cl_in) = 2
    /\ cl_in.rows[1]["gender"] = Str(<<" ", "m", "a", "l", "e">>)
    /\ IsNull(cl_in.rows[2]["gender"])
    /\ NRows(cl_ret) = 2
    /\ \E i, j \in 1..2 :
         /\ cl_ret.rows[i]["gender"] = Male
         /\ cl_ret.rows[j]["gender"] = Unknown

OrdersCleaned == cl_func = "clean_orders" /\ cl_pc = "done" /\ cl_exc = ""

\* the valid item counts of the orders of customer c in the table passed in,
\* in the order of the rows
ValidItemCounts(c) ==
    LET mine == SelectSeq(cl_in.rows,
                    LAMBDA r : r["customer_id"] = c /\ ~IsNull(ToNumeric(r["item_count"])))
    IN [i \in 1..Len(mine) |-> ToNumeric(mine[i]["item_count"])]

\* C19: when clean_orders returns, the output has the rows of the input in
\* order; a valid item count is unchanged, and a missing or invalid one is
\* the median of the valid item counts of the same customer's orders, or
\* missing when that customer has none.
C19_ItemCountImputed ==
    OrdersCleaned =>
        /\ NRows(cl_ret) = NRows(cl_in)
        /\ \A i \in 1..NRows(cl_in) :
             LET src == ToNumeric(cl_in.rows[i]["item_count"])
                 out == cl_ret.rows[i]["item_count"]
             IN IF ~IsNull(src) THEN out = src
                ELSE out = Median(ValidItemCounts(cl_in.rows[i]["customer_id"]))

\* C20: when clean_orders returns, the promo_code of every output row is 0
\* or 1, and it is 1 exactly when the promo_code of the same row of the
\* input was not missing.
C20_PromoFlag ==
    OrdersCleaned =>
        /\ NRows(cl_ret) = NRows(cl_in)
        /\ \A i \in 1..NRows(cl_in) :
             /\ cl_ret.rows[i]["promo_code"] \in {Num(0), Num(1)}
             /\ cl_ret.rows[i]["promo_code"] = Num(1)
                   <=> ~IsNull(cl_in.rows[i]["promo_code"])

\* C20 witness: an order with the promo code "A1" and an order without a
\* promo code; the flags of the output are 1 and 0.
C20_Witness ==
    /\ OrdersCleaned
    /\ NRows(cl_in) = 2
    /\ cl_in.rows[1]["promo_code"] = Str(<<"A", "1">>)
    /\ IsNull(cl_in.rows[2]["promo_code"])
    /\ cl_ret.rows[1]["promo_code"] = Num(1)
    /\ cl_ret.rows[2]["promo_code"] = Num(0)

\* the rows of the table passed to RFM that belong to customer c
InputRowsOf(c) == SelectSeq(rfm_input.rows, LAMBDA r : r["customer_id"] = c)

\* C17: in the table RFM.preprocess produces, the Frequency of a customer is
\* the number of rows of that customer in the table passed in, whether or
\* not their order id is missing, and the Monetary is the sum of the grand
\* totals of those rows.
C17_FrequencyCountsOrderRows ==
    rfm_pc = "preprocessed" =>
        \A i \in 1..NRows(rfm_self.rfm_df) :
            LET r == rfm_self.rfm_df.rows[i]
                mine == InputRowsOf(r["customer_id"])
            IN /\ r["Frequency"] = Num(Len(mine))
               /\ r["Monetary"] = Num(SumSeq([n \in 1..Len(mine) |->
                                                 mine[n]["grand_total"][2]]))

\* C18: in the table RFM.run returns, two rows with the same Segment have
\* the same CLV_30, whatever the configured cluster mapping.
C18_OneClvPerSegment ==
    rfm_pc = "done" =>
        \A i, j \in 1..NRows(rfm_self.rfm_labeled) :
            rfm_self.rfm_labeled.rows[i]["Segment"] = rfm_self.rfm_labeled.rows[j]["Segment"]
                => rfm_self.rfm_labeled.rows[i]["CLV_30"] = rfm_self.rfm_labeled.rows[j]["CLV_30"]

(***************************************************************************)
(* Further claims about upload_models_to_s3, checked under SpecRec.        *)
(***************************************************************************)
RecLeft == rec_pc \in {"returned", "raised"}

\* C25: once upload_models_to_s3 has returned or raised, no temporary file
\* it created is left, whether the upload of the model succeeded or failed
\* or pickle.dump itself failed.
C25_TempFilesRemoved == RecLeft => tmp_files = {}

IsPrefix(a, b) == Len(a) <= Len(b) /\ \A i \in 1..Len(a) : a[i] = b[i]

\* C26: the models are processed in the order svd, nmf, svdpp, item_knn, each
\* one trained before its upload is attempted and attempted before the next
\* one is built; a return with upload enabled gives a map with exactly these
\* four keys, every value a boolean, and neither upload_enabled nor user_knn
\* is a key of it.
C26_StatusKeysInOrder ==
    /\ IsPrefix(trained, ModelMenu)
    /\ IsPrefix([i \in 1..Len(upload_calls) |-> upload_calls[i].model], ModelMenu)
    /\ rec_pc \in {"build", "fit", "fit_redirected"} =>
         Len(trained) = model_idx - 1 /\ Len(upload_calls) = model_idx - 1
    /\ rec_pc = "upload" =>
         Len(trained) = model_idx /\ Len(upload_calls) = model_idx - 1
    /\ (rec_pc = "returned" /\ UploadEnabled(aws_config)) =>
         /\ DOMAIN rec_ret = {"svd", "nmf", "svdpp", "item_knn"}
         /\ \A k \in DOMAIN rec_ret : rec_ret[k] \in BOOLEAN
         /\ "upload_enabled" \notin DOMAIN rec_ret
         /\ "user_knn" \notin DOMAIN rec_ret
         /\ trained = <<"svd", "nmf", "svdpp", "item_knn">>

\* C26 witness: a return with upload enabled after four upload attempts, of
\* which the second failed.
C26_Witness ==
    /\ rec_pc = "returned"
    /\ UploadEnabled(aws_config)
    /\ Len(upload_calls) = 4
    /\ rec_ret["svd"] /\ ~rec_ret["nmf"] /\ rec_ret["svdpp"] /\ rec_ret["item_knn"]

\* C30: once upload_models_to_s3 has returned or raised, sys.stdout is the
\* stream it was before the call, also when the fit of item_knn raised.
C30_StdoutRestored == RecLeft => stdout = "original"

\* C30 witness: the fit of item_knn raised under the redirection and the
\* method has raised with sys.stdout restored.
C30_Witness ==
    /\ rec_pc = "raised"
    /\ rec_failed_at = "fit"
    /\ ModelMenu[model_idx] = "item_knn"
    /\ stdout = "original"

(***************************************************************************)
(* Further claims about the pipeline script, checked under SpecPipeline.   *)
(***************************************************************************)
ReportedDisabled ==
    \E i \in 1..Len(pipe_log) :
        pipe_log[i] = "Recommender models trained but upload was disabled in configuration"

C28_HandedTableUnchanged ==
    /\ hd_df = 1
    /\ hd_heap[hd_df] = hd_acquired
    /\ hd_pc \in {"rfm_run", "food_run"} => hd_self # hd_df

\* C28 witness: the script reached its end; RFM wrote order_date into its
\* own table, Recommender wrote rating into its own selection, and the
\* table of the script, which Recommender refers to, is as acquired.
C28_Witness ==
    /\ hd_pc = "done"
    /\ hd_exc = ""
    /\ hd_self = hd_df
    /\ \E i \in 1..Len(hd_heap) : "order_date" \in hd_heap[i].cols
    /\ \E i \in 1..Len(hd_heap) : "rating" \in hd_heap[i].cols
    /\ hd_heap[hd_df] = hd_acquired
    /\ NRows(hd_acquired) = 2

(***************************************************************************)
(* Further claims about RFM, checked under SpecRfm.                        *)
(***************************************************************************)
Range(f) == {f[i] : i \in DOMAIN f}

\* the rows of the table RFM.run returns that belong to customer c
ResultRowsOf(t, c) == SelectSeq(t.rows, LAMBDA r : r["customer_id"] = c)

\* the indexes of the customers K-Means put in the cluster of customer i
ClusterOf(i) == {j \in 1..NRows(rfm_self.rfm_df) : rfm_labels[j] = rfm_labels[i]}

\* the mean Frequency of the cluster of customer i is zero
ZeroMeanFrequency(i) ==
    \A j \in ClusterOf(i) : rfm_self.rfm_df.rows[j]["Frequency"] = Num(0)

\* C23: when RFM.run has returned, a customer of a named segment whose
\* cluster has a mean Frequency of zero has the fallback CLV_30 of zero,
\* and no customer of a named segment has an infinite or a missing CLV_30.
C23_ZeroFrequencyFallback ==
    rfm_pc = "done" =>
        \A i \in 1..NRows(rfm_self.rfm_df) :
            rfm_labels[i] \in DOMAIN rfm_cfg.cluster_mapping =>
                \A r \in Range(ResultRowsOf(rfm_self.rfm_labeled,
                                            rfm_self.rfm_df.rows[i]["customer_id"])) :
                    /\ r["CLV_30"][1] = "rat"
                    /\ ZeroMeanFrequency(i) => r["CLV_30"] = Quotient(0, 1)

\* the customers whose cluster id the mapping names
MappedCustomers ==
    {rfm_self.rfm_df.rows[i]["customer_id"] :
        i \in {j \in 1..NRows(rfm_self.rfm_df) :
                 rfm_labels[j] \in DOMAIN rfm_cfg.cluster_mapping}}

\* what clv_calculation gives when the customers of unnamed clusters and
\* their orders are left out
ClvOfMappedOnly ==
    LET labeled == RfmTrain(rfm_self.rfm_df, rfm_labels, rfm_cfg.cluster_mapping)
        Keep(t) == Table(t.cols,
                         SelectSeq(t.rows, LAMBDA r : r["customer_id"] \in MappedCustomers))
    IN RfmClv(Keep(rfm_self.df), Keep(labeled), rfm_cfg.cluster_mapping)

\* C24: RFM.run does not raise after K-Means gave its labels; a customer
\* whose cluster id has no entry in the mapping is in the result with a
\* missing Segment and a missing CLV_30, and a customer of a mapped cluster
\* has the Segment of its cluster and the CLV_30 it has when the unmapped
\* customers are left out.
C24_UnmappedClusterGivesMissing ==
    /\ rfm_pc \in {"trained", "done"} => rfm_exc = ""
    /\ rfm_pc = "done" =>
         \A i \in 1..NRows(rfm_self.rfm_df) :
            LET c == rfm_self.rfm_df.rows[i]["customer_id"]
                mine == ResultRowsOf(rfm_self.rfm_labeled, c)
            IN /\ mine # <<>>
               /\ IF rfm_labels[i] \notin DOMAIN rfm_cfg.cluster_mapping
                  THEN \A n \in 1..Len(mine) :
                          IsNull(mine[n]["Segment"]) /\ IsNull(mine[n]["CLV_30"])
                  ELSE /\ \A n \in 1..Len(mine) :
                             mine[n]["Segment"] = rfm_cfg.cluster_mapping[rfm_labels[i]]
                       /\ mine = ResultRowsOf(ClvOfMappedOnly, c)

\* C24 witness: the mapping names cluster 0 only; customer 1 is in cluster 1
\* and has a missing Segment and CLV_30, customer 2 is in cluster 0 and has
\* the Segment L and a CLV_30.
C24_Witness ==
    /\ rfm_pc = "done"
    /\ DOMAIN rfm_cfg.cluster_mapping = {0}
    /\ rfm_labels = <<1, 0>>
    /\ \E r \in Range(rfm_self.rfm_labeled.rows) :
          r["customer_id"] = Num(1) /\ IsNull(r["Segment"]) /\ IsNull(r["CLV_30"])
    /\ \E r \in Range(rfm_self.rfm_labeled.rows) :
          r["customer_id"] = Num(2) /\ r["Segment"] = Loyal /\ r["CLV_30"][1] = "rat"

(***************************************************************************)
(* Claims about FOOD.run, checked under SpecFood.                          *)
(***************************************************************************)
\* the tags that occur in the table handed to FOOD
TagsInData ==
    UNION {TagsOf(fn_args.df.rows[i]["vendor_tag_name"]) : i \in 1..NRows(fn_args.df)}

\* a tag of the mapping or of the column list does not occur in the data
SomeTagAbsent ==
    \E t \in (fn_args.cfg.columns \ {"customer_id"}) \cup
             UNION {fn_args.cfg.food_mapping[cat] : cat \in DOMAIN fn_args.cfg.food_mapping} :
        t \notin TagsInData

\* C22: a run of FOOD.run on at least as many rows as clusters, in which a
\* tag of the mapping or of the column list does not occur in the data,
\* does not raise; the aggregated table has a column for every category of
\* the mapping, and the column of a category none of whose tags is
\* available is 0 in every row.
C22_AbsentTagNeverAborts ==
    (fn_pc = "done" /\ SomeTagAbsent
        /\ NRows(fn_args.df) >= fn_args.cfg.num_clusters) =>
        /\ fn_exc = ""
        /\ DOMAIN fn_args.cfg.food_mapping \subseteq fn_ret.aggregated_df.cols
        /\ NRows(fn_ret.aggregated_df) = NRows(fn_args.df)
        /\ \A cat \in DOMAIN fn_args.cfg.food_mapping :
              fn_args.cfg.food_mapping[cat] \cap TagsInData \cap fn_args.cfg.columns = {} =>
                  \A i \in 1..NRows(fn_ret.aggregated_df) :
                      fn_ret.aggregated_df.rows[i][cat] = Num(0)

(***************************************************************************)
(* Claims about upload_clustering_to_s3, checked under SpecUpload.         *)
(***************************************************************************)
\* key is some part p of the prefix that does not end with a slash and is
\* followed in the prefix by slashes only, then one slash, then the name
IsKeyOf(key, prefix, name) ==
    \E k \in 0..Len(prefix) :
        /\ k = 0 \/ prefix[k] # "/"
        /\ \A i \in (k + 1)..Len(prefix) : prefix[i] = "/"
        /\ key = SubSeq(prefix, 1, k) \o <<"/">> \o name

\* the name of the object: the filename of the caller, or
\* clustering_<timestamp>.csv when the caller gave none
ExpectedName ==
    IF fn_args.filename = "custom_file.csv" THEN <<"custom_file.csv">>
    ELSE <<"clustering_", fn_ret.timestamp, ".csv">>

\* C21: upload_clustering_to_s3 never calls put_object twice; every call it
\* makes is for the caller's bucket and the key made of the prefix without
\* its trailing slashes, one slash and the file name; a return gives
\* s3://<bucket>/<key> for the key of its one successful call; a failed
\* call is followed by the exception, not by a second call.
C21_OnePutToTheKey ==
    fn_pc = "done" =>
        /\ Len(fn_ret.puts) <= 1
        /\ \A i \in 1..Len(fn_ret.puts) :
              /\ fn_ret.puts[i].Bucket = fn_args.bucket_name
              /\ IsKeyOf(fn_ret.puts[i].Key, fn_args.s3_prefix, ExpectedName)
        /\ fn_exc = "" =>
              /\ Len(fn_ret.puts) = 1
              /\ fn_ret.puts[1].ok
              /\ fn_ret.value = <<"s3://", fn_args.bucket_name, "/">> \o fn_ret.puts[1].Key
        /\ (\E i \in 1..Len(fn_ret.puts) : ~fn_ret.puts[i].ok) =>
              fn_exc # "" /\ fn_ret.value = None

\* C21 witness: with the prefix "t//" and the caller's file name the one
\* call went to t/custom_file.csv and the URI of that key was returned.
C21_Witness ==
    /\ fn_pc = "done"
    /\ fn_name = "upload_clustering_to_s3"
    /\ fn_exc = ""
    /\ fn_args.s3_prefix = <<"t", "/", "/">>
    /\ Len(fn_ret.puts) = 1
    /\ fn_ret.puts[1].Key = <<"t", "/", "custom_file.csv">>
    /\ fn_ret.value = <<"s3://", "bucket", "/", "t", "/", "custom_file.csv">>

(***************************************************************************)
(* Claims about the web app, checked under SpecWeb.                        *)
(***************************************************************************)
\* the vendors of the restaurant orders of the order history
RestaurantVendors ==
    {r["vendor_id"] : r \in {x \in Range(fn_args.csv.rows) :
                                x["vendor_category_en"] = Restaurants}}

\* the vendors of the restaurant orders of the selected customer
AlreadyOrdered ==
    {r["vendor_id"] : r \in {x \in Range(fn_args.csv.rows) :
                                /\ x["vendor_category_en"] = Restaurants
                                /\ x["customer_id"] = fn_args.selected_customer}}

\* C29: the list built for the selected customer and k holds restaurant
\* vendors the customer has not ordered from, each once; it has
\* min(k, number of such vendors) entries, and the estimated scores do not
\* increase along it.
C29_TopNOfNewVendors ==
    fn_pc = "done" =>
        LET new == RestaurantVendors \ AlreadyOrdered
            n == Cardinality(new)
        IN /\ fn_exc = ""
           /\ \A i \in 1..Len(fn_ret) : fn_ret[i].iid \in new
           /\ \A i, j \in 1..Len(fn_ret) : i # j => fn_ret[i].iid # fn_ret[j].iid
           /\ Len(fn_ret) = IF fn_args.k < n THEN fn_args.k ELSE n
           /\ \A i, j \in 1..Len(fn_ret) : i < j => fn_ret[i].est >= fn_ret[j].est

\* C29 witness: customer 1 ordered from restaurant 1 and from vendor 3 as
\* a grocery, customer 2 ordered from restaurant 2; with k = 1 the list for
\* customer 1 is vendor 2.
C29_Witness ==
    /\ fn_pc = "done"
    /\ fn_name = "run_app"
    /\ fn_args.selected_customer = Num(1)
    /\ fn_args.k = 1
    /\ AlreadyOrdered = {Num(1)}
    /\ RestaurantVendors = {Num(1), Num(2)}
    /\ \E r \in Range(fn_args.csv.rows) :
          r["customer_id"] = Num(1) /\ r["vendor_id"] = Num(3)
              /\ r["vendor_category_en"] # Restaurants
    /\ fn_ret = <<[iid |-> Num(2), est |-> 2]>>

====
